---------------------------- MODULE Spec2Model ----------------------------
(***************************************************************************)
(* Math tower defense (src/main.go): the simulation core driven by         *)
(* Game.Update, modelled as a state machine over the fields of Game.       *)
(*                                                                         *)
(* Arithmetic.  The program computes in float64; the model computes in     *)
(* fixed point, with one unit per quantity, chosen so that every constant  *)
(* of the program is an integer:                                           *)
(*   time      1/3 ms     (dt = 1000/60 ms = 50 units)                     *)
(*   HP, armor, damage  1/100 HP                                           *)
(*   enemy progress T   1/TDen of a segment                                *)
(*   enemy, tower, click positions   1 px                                  *)
(*   bullet positions   1/3 px   (400, 600, 800 px/s = 20, 30, 40 / tick)  *)
(* Divisions round down where float64 would keep a fraction.               *)
(* rand.Intn and rand.Float64 are nondeterministic choices over sample     *)
(* values of their ranges.                                                 *)
(***************************************************************************)
EXTENDS Integers, Sequences, FiniteSets, TLC

VARIABLES g, obs

vars == <<g, obs>>

-----------------------------------------------------------------------------
(* Units *)

\* time: units per millisecond
TimeScale == 3
Ms(x) == x * TimeScale
\* HP, armor, damage: units per HP
HPScale == 100
HPu(x) == x * HPScale
\* enemy progress: units per path segment
TDen == 60000
\* bullet positions: units per pixel
BScale == 3
\* Updates per second
TicksPerSec == 60
\* dt := 1.0 / 60.0 * 1000.0
DT == Ms(1000) \div TicksPerSec

(* Program constants (src/main.go:17-48) *)
ScreenW == 800
ScreenH == 600
EnemyBaseHPMin == 100
EnemyBaseHPMax == 200
\* EnemyHPScalePerLevel = 0.18, in hundredths
EnemyHPScalePerLevelPct == 18
\* EnemyArmorPerLevel = 0.5
EnemyArmorPerLevelCenti == HPu(1) \div 2
EnemySpeedBase == 10
EnemySpeedRandMax == 40
EnemySpeedPerLevel == 2
EnemiesPerLevelMin == 30
EnemiesPerLevelMax == 50
SpawnIntervalBase == Ms(2000)
SpawnIntervalDecay == Ms(150)
SpawnIntervalMin == Ms(600)
PlayerEscapeBaseDamage == HPu(10)
InterLevelPauseMS == Ms(20000)
\* 20 + g.rand.Intn(11)
ThresholdMin == 20
ThresholdSpan == 11
\* bestD < 18
HitRadius == 18
\* math.Hypot(tw.X-gx, tw.Y-gy) < 18
SelectRadius == 18
\* for e.BurnTick >= 1000
BurnTickInterval == Ms(1000)
\* dmg := float64(100 * e.BurnLevel)
BurnDamagePerLevel == HPu(100)

-----------------------------------------------------------------------------
(* Bounds of the model *)

\* rand.Intn(n) is sampled at RandPicks evenly spread values of 0..n-1
RandPicks == 2
\* rand.Float64() is sampled at k/FloatDen, k in 0..FloatDen-1
FloatDen == 3
\* the input buffer takes keys up to this length
MaxBuf == 2

-----------------------------------------------------------------------------
(* Arithmetic helpers *)

Max(a, b) == IF a >= b THEN a ELSE b
Min(a, b) == IF a <= b THEN a ELSE b

RECURSIVE SqrtIter(_, _, _)
\* largest r in lo..hi with r*r <= n, by bisection
SqrtIter(n, lo, hi) ==
  IF lo >= hi THEN lo
  ELSE LET mid == (lo + hi + 1) \div 2
       IN IF mid * mid <= n THEN SqrtIter(n, mid, hi) ELSE SqrtIter(n, lo, mid - 1)

\* floor of the square root (math.Hypot's root, rounded down)
ISqrt(n) == SqrtIter(n, 0, Min(n, 46340))

Hypot2(dx, dy) == dx * dx + dy * dy
Hypot(dx, dy) == ISqrt(Hypot2(dx, dy))

\* func dist(a, b Vec)
dist(a, b) == Hypot(a.X - b.X, a.Y - b.Y)

Vec(x, y) == [X |-> x, Y |-> y]

RECURSIVE SumSeq(_)
SumSeq(s) == IF s = <<>> THEN 0 ELSE Head(s) + SumSeq(Tail(s))

\* the sequence s without its i-th element: append(s[:i], s[i+1:]...)
RemoveAt(s, i) == [k \in 1..(Len(s) - 1) |-> IF k < i THEN s[k] ELSE s[k + 1]]

(* Random draws *)

\* the sampled results of rand.Intn(n)
Intn(n) ==
  IF n <= 1 THEN {0}
  ELSE {((n - 1) * k) \div (RandPicks - 1) : k \in 0..(RandPicks - 1)}

\* the sampled results of rand.Float64(), as numerators over FloatDen
Float64 == 0..(FloatDen - 1)

-----------------------------------------------------------------------------
(* Data: type Enemy, Tower, Bullet, Question (src/main.go:52-90).  An enemy *)
(* carries two history fields that the program does not have: id, its      *)
(* spawn number, and T0, its T at the previous tick boundary.  A bullet    *)
(* carries two: id, its launch number, and born, the Update that launched  *)
(* it (0: an Update before the run).                                       *)

Enemy(id, hp, armor, speed) ==
  [id |-> id, T0 |-> 0,
   HP |-> hp, MaxHP |-> hp, Armor |-> armor, Speed |-> speed, T |-> 0,
   BurnTime |-> 0, BurnLevel |-> 0, BurnTick |-> 0,
   SlowTime |-> 0, SlowFactor |-> 0]

Tower(x, y, range, damage, fire, type, flameDur, pulseDur) ==
  [X |-> x, Y |-> y, Range |-> range, Damage |-> damage, Fire |-> fire,
   Cd |-> 0, Type |-> type, FlameDuration |-> flameDur, PulseDuration |-> pulseDur]

Bullet(x, y, tx, ty, speed, damage, pen, aoe) ==
  [id |-> 0, born |-> 0, X |-> x, Y |-> y, Tx |-> tx, Ty |-> ty, Speed |-> speed,
   Damage |-> damage, Penetration |-> pen, AoeRadius |-> aoe]

\* a threshold drawn one too high
ThresholdOneMore(r) == ThresholdMin + r + 1

\* 20 + g.rand.Intn(11), for the draw r
Threshold(r) == ThresholdMin + r

NoQuestion == [a |-> 0, op |-> "nil", b |-> 0, Ans |-> 0]

\* the path NewGame sets
InitialPath ==
  <<Vec(0, 300), Vec(200, 300), Vec(200, 100), Vec(600, 100), Vec(600, 400), Vec(800, 400)>>

\* the three towers NewGame places
InitialTowers ==
  <<Tower(150, 220, 120, HPu(2), Ms(700), "normal", 0, 0),
    Tower(300, 220, 100, 0, Ms(200), "flame", Ms(5000), 0),
    Tower(450, 220, 140, 0, Ms(1500), "slow", 0, Ms(1200))>>

\* func NewGame: the games it can return, one per draw of the threshold and the quota
NewGame ==
  { [path |-> InitialPath,
     enemies |-> <<>>,
     towers |-> InitialTowers,
     bullets |-> <<>>,
     lastSpawn |-> 0,
     spawnInt |-> SpawnIntervalBase,
     selected |-> -1,
     lastClick |-> Vec(0, 0),
     challengeActive |-> FALSE,
     question |-> NoQuestion,
     inputBuf |-> <<>>,
     killCount |-> 0,
     nextLevelThreshold |-> Threshold(r1),
     level |-> 1,
     levelMsgTimer |-> 0,
     enemiesToSpawn |-> EnemiesPerLevelMin + r2,
     enemiesSpawned |-> 0,
     playerHP |-> HPu(100),
     playerArmor |-> HPu(2),
     playerGold |-> 0,
     shopActive |-> FALSE,
     upDamageLevel |-> 0,
     upSpeedLevel |-> 0,
     upPenLevel |-> 0,
     upAOELevel |-> 0,
     interLevelActive |-> FALSE,
     interLevelTimer |-> 0]
    : r1 \in Intn(ThresholdSpan),
      r2 \in Intn(EnemiesPerLevelMax - EnemiesPerLevelMin + 1) }

\* number of segments of a path: len(g.path)-1
Segs(path) == Len(path) - 1

\* func (g *Game) posAlongPath(t), on fixed-point t
posAlongPath(path, t) ==
  LET i == t \div TDen
      frac == t % TDen
  IN IF i >= Len(path) - 1 THEN path[Len(path)]
     ELSE LET a == path[i + 1]
              b == path[i + 2]
          IN Vec(a.X + ((b.X - a.X) * frac) \div TDen,
                 a.Y + ((b.Y - a.Y) * frac) \div TDen)

-----------------------------------------------------------------------------
(* History.  obs is not program state: it records what the last Update did *)
(* (one log per kind of event, in the order of the events), the game       *)
(* before that Update, and counters: Updates taken, enemies spawned so     *)
(* far, kills since the last newLevel, submissions since the challenge was *)
(* opened, clicks on open ground recorded so far, pauses ended so far,     *)
(* bullets launched so far, levels begun so far, the id of the first      *)
(* enemy of the level, escapes so far of enemies spawned in the level.     *)

\* the part of the game a challenge may reward or a purchase may change
Holdings(gm) ==
  [towers |-> gm.towers, gold |-> gm.playerGold,
   ups |-> <<gm.upDamageLevel, gm.upSpeedLevel, gm.upPenLevel, gm.upAOELevel>>]

\* Without a record of them, the escapes of the level are the fewest the
\* counters allow: the enemies spawned that are neither alive nor killed.
NewObs(gm, ticks, nextId, sinceUp, subs) ==
  [ups |-> 0,
   lvlFirst |-> nextId - gm.enemiesSpawned,
   ownEsc |-> Max(0, gm.enemiesSpawned - gm.killCount
                       - Cardinality({i \in 1..Len(gm.enemies) :
                                        gm.enemies[i].id >= nextId - gm.enemiesSpawned})),
   ticks |-> ticks, nextId |-> nextId, sinceUp |-> sinceUp, subs |-> subs, clicks |-> 0, ended |-> 0,
   shots |-> Len(gm.bullets), flights |-> <<>>,
   turns |-> <<>>, status |-> <<>>, pre |-> gm, afterWave |-> gm,
   input |-> [click |-> FALSE, x |-> 0, y |-> 0, keys |-> {}],
   levelUps |-> <<>>, kills |-> <<>>, escapes |-> <<>>, hits |-> <<>>,
   impacts |-> <<>>, shop |-> <<>>, chal |-> <<>>, opens |-> <<>>, spawns |-> <<>>,
   beforeKeys |-> gm, afterKeys |-> gm]

-----------------------------------------------------------------------------
(* Mouse: Update lines 174-201, handleInterLevelClick, handleShopClick *)

\* func (g *Game) handleInterLevelClick(x, y)
handleInterLevelClick(s, x, y) ==
  LET bx == (ScreenW - 360) \div 2 + 360 - 120
      by == (ScreenH - 80) \div 2 + 80 - 36
  IN IF ~s.g.interLevelActive THEN s
     ELSE IF x >= bx /\ x <= bx + 100 /\ y >= by /\ y <= by + 28
          THEN [s EXCEPT !.g.interLevelActive = FALSE, !.g.interLevelTimer = 0,
                         !.g.enemiesSpawned = 0, !.g.lastSpawn = 0, !.o.ended = @ + 1]
          ELSE s

\* the base cost of upgrade track idx: 50, 40, 60, 80
ShopBaseCost(idx) ==
  CASE idx = 0 -> 50 [] idx = 1 -> 40 [] idx = 2 -> 60 [] idx = 3 -> 80

\* the level of upgrade track idx
UpLevel(gm, idx) ==
  CASE idx = 0 -> gm.upDamageLevel [] idx = 1 -> gm.upSpeedLevel
    [] idx = 2 -> gm.upPenLevel [] idx = 3 -> gm.upAOELevel

\* cost := base * (1 + level)
ShopCost(gm, idx) == ShopBaseCost(idx) * (1 + UpLevel(gm, idx))

\* a shop that sells on credit
AlwaysAffordable(gm, cost) == TRUE

\* if g.playerGold >= cost
Affordable(gm, cost) == gm.playerGold >= cost

\* one case of handleShopClick's switch: buy track idx if affordable
Purchase(s, idx) ==
  LET cost == ShopCost(s.g, idx)
      ok == Affordable(s.g, cost)
      g1 == IF ~ok THEN s.g
            ELSE CASE idx = 0 -> [s.g EXCEPT !.playerGold = @ - cost, !.upDamageLevel = @ + 1]
                   [] idx = 1 -> [s.g EXCEPT !.playerGold = @ - cost, !.upSpeedLevel = @ + 1]
                   [] idx = 2 -> [s.g EXCEPT !.playerGold = @ - cost, !.upPenLevel = @ + 1]
                   [] idx = 3 -> [s.g EXCEPT !.playerGold = @ - cost, !.upAOELevel = @ + 1]
  IN [g |-> g1,
      o |-> [s.o EXCEPT !.shop = Append(@, [idx |-> idx, before |-> Holdings(s.g),
                                            after |-> Holdings(g1)])]]

\* func (g *Game) handleShopClick(x, y)
handleShopClick(s, x, y) ==
  LET x0 == (ScreenW - 420) \div 2
      y0 == (ScreenH - 260) \div 2
      relY == y - (y0 + 50)
      idx == relY \div 40
  IN IF x < x0 \/ x > x0 + 420 \/ y < y0 \/ y > y0 + 260 THEN s
     ELSE IF relY < 0 \/ relY > 200 THEN s
     ELSE IF idx \in 0..3 THEN Purchase(s, idx)
     ELSE s

\* the first tower within 18 px of (x, y), as an index from 0, or -1
NearTower(towers, x, y) ==
  LET near == {i \in 1..Len(towers) :
                 Hypot2(towers[i].X - x, towers[i].Y - y) < SelectRadius * SelectRadius}
  IN IF near = {} THEN -1
     ELSE (CHOOSE i \in near : \A j \in near : i <= j) - 1

\* Update, mouse button released at (in.x, in.y)
HandleClick(s, in) ==
  IF ~in.click THEN s
  ELSE LET s1 == IF s.g.interLevelActive THEN handleInterLevelClick(s, in.x, in.y) ELSE s
           s2 == IF s1.g.shopActive THEN handleShopClick(s1, in.x, in.y) ELSE s1
           sel == NearTower(s2.g.towers, in.x, in.y)
       IN IF sel >= 0 THEN [s2 EXCEPT !.g.selected = sel]
          ELSE [s2 EXCEPT !.g.selected = -1, !.g.lastClick = Vec(in.x, in.y),
                          !.o.clicks = @ + 1]

-----------------------------------------------------------------------------
(* Challenge: genQuestion, Update lines 203-253, applyReward *)

Q(a, op, b, ans) == [a |-> a, op |-> op, b |-> b, Ans |-> ans]

\* a question whose subtraction is taken the wrong way round
ArithQSwapped(oi, a, b) ==
  IF oi = 0 THEN Q(a, "+", b, a + b)
  ELSE IF oi = 1 THEN Q(a, "-", b, b - a)
  ELSE Q(a, "*", b, a * b)

\* the question of operation oi (0: +, 1: -, 2: *) on a and b
ArithQ(oi, a, b) ==
  IF oi = 0 THEN Q(a, "+", b, a + b)
  ELSE IF oi = 1 THEN Q(a, "-", b, a - b)
  ELSE Q(a, "*", b, a * b)

\* the draw of the operation, r.Intn(n): every result, since each selects a branch
OpDraw(n) == 0..(n - 1)

\* func genQuestion(r, level): the questions it can return
genQuestion(level) ==
  IF level <= 2
    THEN {ArithQ(oi, 1 + ra, 1 + rb) : ra \in Intn(12), rb \in Intn(12), oi \in OpDraw(2)}
  ELSE IF level <= 5
    THEN {ArithQ(oi, 1 + ra, 1 + rb) : ra \in Intn(20), rb \in Intn(20), oi \in OpDraw(3)}
  ELSE IF level <= 9
    THEN {ArithQ(oi, 2 + ra, 2 + rb) : ra \in Intn(18), rb \in Intn(18), oi \in OpDraw(3)}
  ELSE UNION { IF oi = 3
                 THEN {Q((2 + rb) * (2 + rq), "/", 2 + rb, ((2 + rb) * (2 + rq)) \div (2 + rb))
                         : rb \in Intn(18), rq \in Intn(12)}
                 ELSE {ArithQ(oi, 5 + ra, 5 + rb) : ra \in Intn(45), rb \in Intn(45)}
               : oi \in OpDraw(4) }

Digits == <<"0", "1", "2", "3", "4", "5", "6", "7", "8", "9">>

DigitVal(c) == CHOOSE k \in 0..9 : Digits[k + 1] = c

IsDigit(c) == \E k \in 1..10 : Digits[k] = c

RECURSIVE DigitsValue(_)
DigitsValue(ds) ==
  IF ds = <<>> THEN 0
  ELSE 10 * DigitsValue(SubSeq(ds, 1, Len(ds) - 1)) + DigitVal(ds[Len(ds)])

\* strconv.Atoi on a buffer of at most MaxBuf characters (no overflow at that length):
\* an optional sign, then at least one character, all digits
Atoi(buf) ==
  LET signed == buf # <<>> /\ buf[1] \in {"-", "+"}
      ds == IF signed THEN Tail(buf) ELSE buf
  IN IF ds = <<>> \/ \E i \in 1..Len(ds) : ~IsDigit(ds[i])
       THEN [ok |-> FALSE, val |-> 0]
       ELSE [ok |-> TRUE,
             val |-> IF signed /\ buf[1] = "-" THEN -DigitsValue(ds) ELSE DigitsValue(ds)]

\* && !g.challengeActive
CanOpen(gm) == ~gm.challengeActive

\* Update, key C: open a challenge unless one is active
OpenChallenge(s, in) ==
  IF "C" \in in.keys /\ CanOpen(s.g)
    THEN { [g |-> [s.g EXCEPT !.question = q, !.inputBuf = <<>>, !.challengeActive = TRUE],
            o |-> [s.o EXCEPT !.subs = 0,
                              !.opens = Append(@, [opened |-> TRUE, q |-> q,
                                                   qBefore |-> s.g.question,
                                                   bufBefore |-> s.g.inputBuf,
                                                   bufAfter |-> <<>>])]]
           : q \in genQuestion(s.g.level) }
  ELSE IF "C" \in in.keys
    THEN { [s EXCEPT !.o.opens = Append(@, [opened |-> FALSE, q |-> s.g.question,
                                            qBefore |-> s.g.question,
                                            bufBefore |-> s.g.inputBuf,
                                            bufAfter |-> s.g.inputBuf])] }
  ELSE {s}

\* Update, key B: toggle the shop; opening it closes the challenge
ToggleShop(s, in) ==
  IF "B" \in in.keys
    THEN IF ~s.g.shopActive
           THEN [s EXCEPT !.g.shopActive = TRUE, !.g.challengeActive = FALSE]
           ELSE [s EXCEPT !.g.shopActive = FALSE]
    ELSE s

\* tw.Fire = math.Max(150, tw.Fire-100)
RewardFire(fire) == Max(Ms(150), fire - Ms(100))

\* func (g *Game) applyReward: the games it can leave, one per draw of reward
applyReward(gm) ==
  { IF gm.selected >= 0
      THEN LET i == gm.selected + 1 IN
           IF reward * 100 < 33 * FloatDen
             THEN [gm EXCEPT !.towers[i].Damage = @ + HPu(1)]
           ELSE IF reward * 100 < 66 * FloatDen
             THEN [gm EXCEPT !.towers[i].Range = @ + 20]
           ELSE [gm EXCEPT !.towers[i].Fire = RewardFire(@)]
      ELSE LET pos == IF gm.lastClick.X = 0 /\ gm.lastClick.Y = 0
                        THEN Vec(100, 250) ELSE gm.lastClick
           IN [gm EXCEPT !.towers = Append(@, Tower(pos.X, pos.Y, 120, HPu(2), Ms(700), "", 0, 0))]
    : reward \in Float64 }

\* an answer accepted as soon as it is a number
AnswerParses(gm) == Atoi(gm.inputBuf).ok

\* if err == nil && ans == g.question.Ans
AnswerCorrect(gm) ==
  LET r == Atoi(gm.inputBuf) IN r.ok /\ r.val = gm.question.Ans

\* Update, key Enter: submit the buffer, reward a correct answer, close the challenge
Submit(s) ==
  LET correct == AnswerCorrect(s.g)
      kind == IF correct THEN "correct"
              ELSE IF Atoi(s.g.inputBuf).ok THEN "wrong" ELSE "malformed"
      rewarded == IF correct THEN applyReward(s.g) ELSE {s.g}
  IN { LET g2 == [g1 EXCEPT !.challengeActive = FALSE, !.inputBuf = <<>>]
       IN [g |-> g2,
           o |-> [s.o EXCEPT !.subs = @ + 1,
                             !.chal = Append(@, [kind |-> kind, buf |-> s.g.inputBuf,
                                                 q |-> s.g.question,
                                                 before |-> Holdings(s.g),
                                                 after |-> Holdings(g2),
                                                 activeAfter |-> g2.challengeActive,
                                                 bufAfter |-> g2.inputBuf])]]
       : g1 \in rewarded }

\* Update, key Escape: close the challenge
Cancel(s) ==
  LET g2 == [s.g EXCEPT !.challengeActive = FALSE, !.inputBuf = <<>>]
  IN [g |-> g2,
      o |-> [s.o EXCEPT !.chal = Append(@, [kind |-> "cancel", buf |-> s.g.inputBuf,
                                            q |-> s.g.question,
                                            before |-> Holdings(s.g),
                                            after |-> Holdings(g2),
                                            activeAfter |-> g2.challengeActive,
                                            bufAfter |-> g2.inputBuf])]]

RECURSIVE TypeDigits(_, _, _)
\* for k, d := range digits: append each digit key pressed, in the order 0..9
TypeDigits(buf, keys, k) ==
  IF k > 10 THEN buf
  ELSE TypeDigits(IF Digits[k] \in keys THEN Append(buf, Digits[k]) ELSE buf, keys, k + 1)

\* a gate that takes keys when closed
GateAlwaysOpen(gm) == TRUE

\* if g.challengeActive
GateOpen(gm) == gm.challengeActive

\* Update, while the challenge is active: digits, backspace, minus, enter, escape
ChallengeKeys(s, in) ==
  IF ~GateOpen(s.g) THEN {s}
  ELSE LET b1 == TypeDigits(s.g.inputBuf, in.keys, 1)
           b2 == IF "Backspace" \in in.keys /\ Len(b1) > 0
                   THEN SubSeq(b1, 1, Len(b1) - 1) ELSE b1
           b3 == IF "Minus" \in in.keys /\ Len(b2) = 0 THEN <<"-">> ELSE b2
           s3 == [s EXCEPT !.g.inputBuf = b3]
           S4 == IF "Enter" \in in.keys \/ "KPEnter" \in in.keys THEN Submit(s3) ELSE {s3}
       IN {IF "Escape" \in in.keys THEN Cancel(x) ELSE x : x \in S4}

-----------------------------------------------------------------------------
(* Waves: spawnEnemy, newLevel, Update lines 255-280 *)

\* func (g *Game) spawnEnemy: one result per draw of the base HP and of the speed
spawnEnemy(s) ==
  { LET base == EnemyBaseHPMin + (u1 * (EnemyBaseHPMax - EnemyBaseHPMin)) \div FloatDen
        hp == base * (HPScale + (s.g.level - 1) * EnemyHPScalePerLevelPct)
        armor == s.g.level * EnemyArmorPerLevelCenti
        speed == EnemySpeedBase + (u2 * EnemySpeedRandMax) \div FloatDen
                   + (s.g.level - 1) * EnemySpeedPerLevel
        e == Enemy(s.o.nextId, hp, armor, speed)
    IN [g |-> [s.g EXCEPT !.enemies = Append(@, e)],
        o |-> [s.o EXCEPT !.nextId = @ + 1, !.spawns = Append(@, e)]]
    : u1 \in Float64, u2 \in Float64 }

\* an interior waypoint newLevel draws: x in 100..699, y in 80..519, both sampled
\* at the same index
WaypointDraws ==
  { Vec(100 + ((ScreenW - 200 - 1) * k) \div (RandPicks - 1),
        80 + ((ScreenH - 160 - 1) * k) \div (RandPicks - 1)) : k \in 0..(RandPicks - 1) }

\* the paths newLevel draws: the left anchor, wp interior waypoints, the right anchor.
\* The interior waypoints are sampled: two draws p0 and p1, taken in turn.
NewPaths ==
  { <<Vec(0, 300)>> \o [i \in 1..(3 + rw) |-> IF i % 2 = 1 THEN p0 ELSE p1]
                    \o <<Vec(ScreenW, 300)>>
    : rw \in Intn(5), p0 \in WaypointDraws, p1 \in WaypointDraws }

\* a spawn interval that is shortened without a floor
NextSpawnIntNoFloor(spawnInt) ==
  IF spawnInt > SpawnIntervalMin THEN spawnInt - SpawnIntervalDecay ELSE spawnInt

\* the spawn interval after a level-up
NextSpawnInt(spawnInt) ==
  IF spawnInt > SpawnIntervalMin
    THEN Max(SpawnIntervalMin, spawnInt - SpawnIntervalDecay)
    ELSE spawnInt

\* func (g *Game) newLevel: one result per draw; trig names the caller
newLevel(s, trig) ==
  { LET g1 == [s.g EXCEPT
                 !.level = @ + 1,
                 !.killCount = 0,
                 !.nextLevelThreshold = Threshold(r1),
                 !.enemiesToSpawn = EnemiesPerLevelMin + r2,
                 !.enemiesSpawned = 0,
                 !.path = np,
                 !.spawnInt = NextSpawnInt(@),
                 !.levelMsgTimer = Ms(3000),
                 !.interLevelActive = (s.g.level + 1 > 1),
                 !.interLevelTimer = IF s.g.level + 1 > 1 THEN InterLevelPauseMS ELSE 0]
    IN [g |-> g1,
        o |-> [s.o EXCEPT
                 !.sinceUp = 0,
                 !.lvlFirst = s.o.nextId,
                 !.ups = @ + 1,
                 !.ownEsc = 0,
                 !.levelUps = Append(@, [trig |-> trig,
                                         ownEsc |-> s.o.ownEsc,
                                         pausedBefore |-> s.g.interLevelActive,
                                         levelBefore |-> s.g.level,
                                         level |-> g1.level,
                                         enemiesSpawned |-> g1.enemiesSpawned,
                                         killCount |-> g1.killCount,
                                         nextLevelThreshold |-> g1.nextLevelThreshold,
                                         enemiesToSpawn |-> g1.enemiesToSpawn,
                                         interLevelActive |-> g1.interLevelActive,
                                         interLevelTimer |-> g1.interLevelTimer])]]
    : r1 \in Intn(ThresholdSpan),
      r2 \in Intn(EnemiesPerLevelMax - EnemiesPerLevelMin + 1),
      np \in NewPaths }

\* a pause that runs one Update past zero
PauseOverLate(t1) == t1 < 0

\* if g.interLevelTimer <= 0
PauseOver(t1) == t1 <= 0

\* a spawn taken as soon as the timer reaches the interval
SpawnDueEarly(gm) == gm.lastSpawn >= gm.spawnInt

\* if g.lastSpawn > g.spawnInt
SpawnDue(gm) == gm.lastSpawn > gm.spawnInt

\* Update, inter-level pause handling and spawning
WavePhase(s) ==
  IF s.g.interLevelActive
    THEN LET t1 == s.g.interLevelTimer - DT
         IN IF PauseOver(t1)
              THEN {[s EXCEPT !.g.interLevelActive = FALSE, !.g.interLevelTimer = 0,
                              !.g.enemiesSpawned = 0, !.g.lastSpawn = 0,
                              !.o.ended = @ + 1]}
              ELSE {[s EXCEPT !.g.interLevelTimer = t1]}
    ELSE LET s1 == [s EXCEPT !.g.lastSpawn = @ + DT]
         IN IF s1.g.enemiesSpawned < s1.g.enemiesToSpawn
              THEN IF SpawnDue(s1.g)
                     THEN {[x EXCEPT !.g.enemiesSpawned = @ + 1, !.g.lastSpawn = 0]
                             : x \in spawnEnemy(s1)}
                     ELSE {s1}
              ELSE IF Len(s1.g.enemies) = 0
                     THEN newLevel(s1, "spawn")
                     ELSE {s1}

-----------------------------------------------------------------------------
(* Enemies: Update lines 282-303 *)

\* a progress no path reaches: the float64 +Inf of a division by a zero length
TInf == 100 * TDen

\* an enemy that stands still
MoveFracNone(path, e) == 0

\* frac := (e.Speed * dt / 1000.0) / segLen, in units of 1/TDen
MoveFrac(path, e) ==
  LET seg == e.T \div TDen
      segLen == IF seg < Len(path) - 1 THEN dist(path[seg + 1], path[seg + 2]) ELSE 1
  IN IF segLen = 0 THEN TInf
     ELSE (e.Speed * TDen) \div (TicksPerSec * segLen)

\* escape damage that ignores the player's armour
EscapeDamageNoArmor(gm) == PlayerEscapeBaseDamage

\* mitig := PlayerEscapeBaseDamage - g.playerArmor, at least 1
EscapeDamage(gm) == Max(HPu(1), PlayerEscapeBaseDamage - gm.playerArmor)

RECURSIVE MoveEnemies(_, _)
\* for i := len(g.enemies) - 1; i >= 0; i--: advance, and remove at the path's end
MoveEnemies(s, i) ==
  IF i < 1 THEN s
  ELSE LET e == s.g.enemies[i]
           t1 == Min(TInf, e.T + MoveFrac(s.g.path, e))
           e1 == [e EXCEPT !.T0 = e.T, !.T = t1]
       IN IF t1 >= Segs(s.g.path) * TDen
            THEN MoveEnemies(
                   [g |-> [s.g EXCEPT !.playerHP = @ - EscapeDamage(s.g),
                                      !.enemies = RemoveAt(@, i)],
                    o |-> [s.o EXCEPT !.ownEsc = IF e.id >= s.o.lvlFirst THEN @ + 1 ELSE @,
                                      !.escapes = Append(@, [id |-> e.id,
                                                             dmg |-> EscapeDamage(s.g),
                                                             T |-> t1])]],
                   i - 1)
            ELSE MoveEnemies([s EXCEPT !.g.enemies[i] = e1], i - 1)

-----------------------------------------------------------------------------
(* Towers: Update lines 305-358 *)

\* the squared distance from tower tw to enemy e
TowerDist2(path, tw, e) ==
  LET p == posAlongPath(path, e.T) IN Hypot2(p.X - tw.X, p.Y - tw.Y)

\* the index of the nearest enemy within tw.Range, the last of equals; 0 if none
FindTargetLast(gm, tw) ==
  LET inRange == {k \in 1..Len(gm.enemies) :
                    TowerDist2(gm.path, tw, gm.enemies[k]) <= tw.Range * tw.Range}
  IN IF inRange = {} THEN 0
     ELSE CHOOSE k \in inRange :
            \A j \in inRange :
              LET dk == TowerDist2(gm.path, tw, gm.enemies[k])
                  dj == TowerDist2(gm.path, tw, gm.enemies[j])
              IN dk < dj \/ (dk = dj /\ k >= j)

\* the index of the nearest enemy within tw.Range, the first of equals; 0 if none
FindTarget(gm, tw) ==
  LET inRange == {k \in 1..Len(gm.enemies) :
                    TowerDist2(gm.path, tw, gm.enemies[k]) <= tw.Range * tw.Range}
  IN IF inRange = {} THEN 0
     ELSE CHOOSE k \in inRange :
            \A j \in inRange :
              LET dk == TowerDist2(gm.path, tw, gm.enemies[k])
                  dj == TowerDist2(gm.path, tw, gm.enemies[j])
              IN dk < dj \/ (dk = dj /\ k <= j)

RECURSIVE FireDecay(_, _)
\* tw.Fire * math.Pow(0.90, level)
FireDecay(fire, level) ==
  IF level <= 0 THEN fire ELSE FireDecay((fire * 9) \div 10, level - 1)

\* dmg *= 1.0 + 0.10*float64(g.upDamageLevel)
UpDamage(dmg, gm) == (dmg * (10 + gm.upDamageLevel)) \div 10

\* one tower's turn: cool down, and fire at the target if there is one
TowerTurn(s, ti) ==
  LET tw0 == s.g.towers[ti]
      tw == [tw0 EXCEPT !.Cd = @ - DT]
      k == IF tw.Cd <= 0 THEN FindTarget(s.g, tw) ELSE 0
      r == IF k = 0 THEN [s EXCEPT !.g.towers[ti] = tw]
           ELSE LET target == s.g.enemies[k]
                    p == posAlongPath(s.g.path, target.T)
                    pen == HPu(s.g.upPenLevel)
                    aoe == 4 * s.g.upAOELevel
                    twc == [tw EXCEPT !.Cd = tw.Fire]
                    shot(speed, dmg) ==
                      [Bullet(BScale * tw.X, BScale * tw.Y, BScale * p.X, BScale * p.Y,
                              speed, dmg, pen, aoe)
                         EXCEPT !.id = s.o.shots + 1, !.born = s.o.ticks]
                IN IF tw.Type = "flame"
                     THEN [s EXCEPT !.g.towers[ti] = twc,
                                    !.g.enemies[k].BurnTime = Max(@, tw.FlameDuration),
                                    !.g.enemies[k].BurnLevel = s.g.level,
                                    !.g.bullets = Append(@, shot(800, UpDamage(HPu(100), s.g)))]
                   ELSE IF tw.Type = "slow"
                     THEN [s EXCEPT !.g.towers[ti] = twc,
                                    !.g.enemies[k].SlowTime = Max(@, tw.PulseDuration),
                                    !.g.enemies[k].SlowFactor = 50,
                                    !.g.bullets = Append(@, shot(600, UpDamage(HPu(100), s.g)))]
                   ELSE [s EXCEPT !.g.towers[ti] =
                                      [twc EXCEPT !.Fire = FireDecay(@, s.g.upSpeedLevel)],
                                  !.g.bullets = Append(@, shot(400, UpDamage(tw.Damage, s.g)))]
  IN [r EXCEPT !.o.shots = IF k = 0 THEN @ ELSE @ + 1,
               !.o.turns = Append(@, [ti |-> ti, fired |-> k # 0,
                                      target |-> IF k = 0 THEN 0 ELSE s.g.enemies[k].id,
                                      before |-> tw0, after |-> r.g.towers[ti],
                                      enemies |-> s.g.enemies, path |-> s.g.path,
                                      upSpeedLevel |-> s.g.upSpeedLevel,
                                      bullets |-> s.g.bullets,
                                      bulletsAfter |-> r.g.bullets])]

RECURSIVE TowersShoot(_, _)
\* for _, tw := range g.towers
TowersShoot(s, ti) ==
  IF ti > Len(s.g.towers) THEN s ELSE TowersShoot(TowerTurn(s, ti), ti + 1)

-----------------------------------------------------------------------------
(* Status effects: Update lines 360-384 *)

\* burn damage that does not grow with the burn level
BurnDamageFlat(e) == BurnDamagePerLevel

\* dmg := float64(100 * e.BurnLevel)
BurnDamage(e) == BurnDamagePerLevel * e.BurnLevel

\* burn and slow timers of one enemy
StatusOf(e) ==
  LET e1 == IF e.BurnTime > 0
              THEN LET acc == e.BurnTick + DT
                       n == acc \div BurnTickInterval
                   IN [e EXCEPT !.HP = @ - n * BurnDamage(e),
                                !.BurnTick = acc - n * BurnTickInterval,
                                !.BurnTime = Max(0, @ - DT)]
              ELSE e
  IN IF e1.SlowTime > 0
       THEN IF e1.SlowTime - DT < 0
              THEN [e1 EXCEPT !.SlowTime = 0, !.SlowFactor = 100]
              ELSE [e1 EXCEPT !.SlowTime = @ - DT]
       ELSE e1

\* for _, e := range g.enemies
StatusEffects(s) ==
  LET es == [k \in 1..Len(s.g.enemies) |-> StatusOf(s.g.enemies[k])]
  IN [s EXCEPT !.g.enemies = es,
               !.o.status = Append(@, [before |-> s.g.enemies, after |-> es])]

-----------------------------------------------------------------------------
(* Impacts: applyDamageAt, Update lines 386-401 *)

\* damage that ignores armour
HitDamageNoArmor(baseDamage, armor, penetration) == Max(HPu(1), baseDamage)

\* dmg := baseDamage - math.Max(0, e.Armor-penetration), at least 1
HitDamage(baseDamage, armor, penetration) ==
  Max(HPu(1), baseDamage - Max(0, armor - penetration))

\* the squared distance from enemy e to the point (x, y)
EnemyDist2(path, e, x, y) ==
  LET p == posAlongPath(path, e.T) IN Hypot2(p.X - x, p.Y - y)

\* if best >= 0 && bestD < 18
WithinHit(d2) == d2 < HitRadius * HitRadius

\* if math.Hypot(p.X-x, p.Y-y) <= aoeRadius
WithinAoe(d2, aoeRadius) == d2 <= aoeRadius * aoeRadius

\* the indices of the enemies applyDamageAt damages
HitSet(gm, x, y, aoeRadius) ==
  LET n == Len(gm.enemies)
      d2(k) == EnemyDist2(gm.path, gm.enemies[k], x, y)
  IN IF aoeRadius <= 0
       THEN IF n = 0 THEN {}
            ELSE LET best == CHOOSE k \in 1..n :
                               \A j \in 1..n : d2(k) < d2(j) \/ (d2(k) = d2(j) /\ k <= j)
                 IN IF WithinHit(d2(best)) THEN {best} ELSE {}
       ELSE {k \in 1..n : WithinAoe(d2(k), aoeRadius)}

\* func (g *Game) applyDamageAt(x, y, baseDamage, penetration, aoeRadius)
applyDamageAt(s, x, y, baseDamage, penetration, aoeRadius) ==
  LET hit == HitSet(s.g, x, y, aoeRadius)
      es == [k \in 1..Len(s.g.enemies) |->
               IF k \in hit
                 THEN [s.g.enemies[k] EXCEPT
                         !.HP = @ - HitDamage(baseDamage, s.g.enemies[k].Armor, penetration)]
                 ELSE s.g.enemies[k]]
  IN [g |-> [s.g EXCEPT !.enemies = es],
      o |-> [s.o EXCEPT !.impacts = Append(@, [x |-> x, y |-> y, baseDamage |-> baseDamage,
                                               penetration |-> penetration,
                                               aoeRadius |-> aoeRadius,
                                               path |-> s.g.path,
                                               before |-> s.g.enemies, after |-> es])]]

\* move := b.Speed * dt / 1000.0, in thirds of a pixel
BulletMove(b) == (b.Speed * BScale) \div TicksPerSec

\* a bullet that is resolved only on the impact point itself
ArrivedExactly(d2, move) == d2 = 0

\* if d <= move || d == 0
Arrived(d2, move) == d2 <= move * move

RECURSIVE MoveBullets(_, _)
\* for i := len(g.bullets) - 1; i >= 0; i--: resolve on arrival, else advance
MoveBullets(s, i) ==
  IF i < 1 THEN s
  ELSE LET b == s.g.bullets[i]
           dx == b.Tx - b.X
           dy == b.Ty - b.Y
           d2 == Hypot2(dx, dy)
           d == ISqrt(d2)
           move == BulletMove(b)
       IN IF Arrived(d2, move)
            THEN LET s1 == applyDamageAt(s, b.Tx \div BScale, b.Ty \div BScale,
                                         b.Damage, b.Penetration, b.AoeRadius)
                 IN MoveBullets([s1 EXCEPT !.g.bullets = RemoveAt(@, i),
                                           !.o.flights = Append(@, [b |-> b, landed |-> TRUE,
                                                                    after |-> b])],
                                i - 1)
            ELSE LET b1 == [b EXCEPT !.X = @ + (dx * move) \div d,
                                     !.Y = @ + (dy * move) \div d]
                 IN MoveBullets([s EXCEPT !.g.bullets[i] = b1,
                                          !.o.flights = Append(@, [b |-> b, landed |-> FALSE,
                                                                   after |-> b1])],
                                i - 1)

-----------------------------------------------------------------------------
(* Kills: Update lines 403-418 *)

\* a flat payment per kill
FlatAward(killCount) == 10

\* goldAward := 10 * g.killCount, with killCount already counting this kill
GoldAward(killCount) == 10 * killCount

\* a level that ends on as many kills as its quota
ThresholdReachedAtQuota(gm) == gm.killCount >= gm.enemiesToSpawn

\* a threshold that is reached one kill late
ThresholdReachedStrict(gm) == gm.killCount > gm.nextLevelThreshold

\* if g.killCount >= g.nextLevelThreshold
ThresholdReached(gm) == gm.killCount >= gm.nextLevelThreshold

\* an enemy that is removed only below 0 HP
DeadBelowZero(e) == e.HP < 0

\* if g.enemies[i].HP <= 0
Dead(e) == e.HP <= 0

RECURSIVE RemoveDead(_, _)
\* for i := len(g.enemies) - 1; i >= 0; i--: count, pay and remove the dead,
\* and level up at the threshold.  The results, one per draw of newLevel.
RemoveDead(s, i) ==
  IF i < 1 THEN {s}
  ELSE IF ~Dead(s.g.enemies[i]) THEN RemoveDead(s, i - 1)
  ELSE LET e == s.g.enemies[i]
           kc == s.g.killCount + 1
           g1 == [s.g EXCEPT !.killCount = kc,
                             !.playerGold = @ + GoldAward(kc),
                             !.enemies = RemoveAt(@, i)]
           o1 == [s.o EXCEPT !.sinceUp = @ + 1,
                             !.kills = Append(@, [id |-> e.id, hp |-> e.HP, n |-> s.o.sinceUp + 1,
                                                  award |-> g1.playerGold - s.g.playerGold,
                                                  level |-> s.g.level])]
           s1 == [g |-> g1, o |-> o1]
           S2 == IF ThresholdReached(g1) THEN newLevel(s1, "kill") ELSE {s1}
       IN UNION {RemoveDead(x, i - 1) : x \in S2}

\* Update, level message timer
MsgTimer(s) ==
  IF s.g.levelMsgTimer > 0
    THEN [s EXCEPT !.g.levelMsgTimer = Max(0, @ - DT)]
    ELSE s

-----------------------------------------------------------------------------
(* func (g *Game) Update, for one frame's input                            *)
(*   in.click, in.x, in.y   the left button was released at (x, y)         *)
(*   in.keys                the keys pressed in this frame                 *)
(* The results: the games Update can leave, with what it did.              *)

NoInput == [click |-> FALSE, x |-> 0, y |-> 0, keys |-> {}]
ClickAt(x, y) == [click |-> TRUE, x |-> x, y |-> y, keys |-> {}]
Keys(ks) == [click |-> FALSE, x |-> 0, y |-> 0, keys |-> ks]

\* the simulation part of Update: lines 255-427
Simulate(s) ==
  LET moved(x) == MoveEnemies(x, Len(x.g.enemies))
      shot(x) == TowersShoot(x, 1)
      landed(x) == MoveBullets(x, Len(x.g.bullets))
      reaped(x) == RemoveDead(x, Len(x.g.enemies))
  IN { MsgTimer(z) :
         z \in UNION { reaped(landed(StatusEffects(shot(moved([w EXCEPT !.o.afterWave = w.g])))))
                       : w \in WavePhase(s) } }

\* the input part of Update: lines 174-253
HandleInput(s, in) ==
  LET s1 == HandleClick(s, in)
      s2 == [s1 EXCEPT !.o.beforeKeys = s1.g]
  IN { [y EXCEPT !.o.afterKeys = y.g] :
         y \in UNION { ChallengeKeys(ToggleShop(x, in), in) : x \in OpenChallenge(s2, in) } }

Update(gm, o, in) ==
  LET s0 == [g |-> gm,
             o |-> [NewObs(gm, o.ticks + 1, o.nextId, o.sinceUp, o.subs)
                      EXCEPT !.input = in, !.clicks = o.clicks, !.ended = o.ended,
                             !.shots = o.shots,
                             !.lvlFirst = o.lvlFirst, !.ownEsc = o.ownEsc,
                             !.ups = o.ups]]
  IN UNION { Simulate(x) : x \in HandleInput(s0, in) }

-----------------------------------------------------------------------------
(* Starting states.  A run of the game from NewGame needs thousands of      *)
(* Updates to reach a kill, a level-up or a purchase, so besides NewGame    *)
(* the runs start from games met in the middle of play; each is described   *)
(* with the play that leads to it.                                          *)

\* the Updates one run takes
MaxTicks == 6
MaxTicksUI == 3
\* the highest level a question is asked at, and the Updates of such a run
MaxLevel == 11
MaxAsks == 3
\* the Updates of a run through a pause, and those in which the mouse is used
MaxTicksPause == 42
MaxClicksAt == 3
\* the Updates of a run that follows bullets, and those in which the shop is used
MaxTicksFlight == 25
MaxBuysAt == 2
\* the Updates of a run over the end of a level
MaxTicksLevels == 3
\* the Updates of a run of clicks among towers
MaxTicksSelect == 3
\* the Updates of a run to the end of a level or of a pause, and those in which
\* the player acts
MaxTicksProgress == 4
MaxActsAt == 1

\* an enemy met in mid-path: hp left of maxhp, progress t
EnemyAt(id, hp, maxhp, armor, speed, t) ==
  [Enemy(id, maxhp, armor, speed) EXCEPT !.HP = hp, !.T = t, !.T0 = t]

\* progress of the point x of the initial path's third segment, (200,100)-(600,100)
OnThird(x) == 2 * TDen + ((x - 200) * TDen) \div 400

\* the gold of n kills in a row since a level-up
GoldOfKills(n) == 5 * n * (n + 1)

\* the towers of NewGame with cooldowns cd
TowersWithCd(cd) == [i \in 1..3 |-> [InitialTowers[i] EXCEPT !.Cd = cd[i]]]

\* Late in level 1, one kill short of the threshold thr, with or without five
\* area upgrades bought.  Of the spawned enemies, thr - 1 were killed by the
\* slowing tower, five escaped, six are on the path: one at its end, one on
\* the last segment, four under the slowing tower, whose shot at (444,100) is
\* four Updates from landing; two of the four were hit once before.
LateWave(thr, quota, spawned, lastSpawn, aoeLevel) ==
  { [g0 EXCEPT
        !.nextLevelThreshold = thr, !.enemiesToSpawn = quota,
        !.enemiesSpawned = spawned, !.lastSpawn = lastSpawn,
        !.killCount = thr - 1,
        !.playerGold = GoldOfKills(thr - 1) - 40 * aoeLevel * (aoeLevel + 1),
        !.upAOELevel = aoeLevel,
        !.playerHP = HPu(100) - 5 * EscapeDamage(g0),
        !.towers = TowersWithCd(<<-Ms(2000), -Ms(60000), Ms(1500) - 8 * DT>>),
        !.enemies =
          << EnemyAt(spawned - 8, HPu(133), HPu(133), 50, 36, 5 * TDen - 100),
             EnemyAt(spawned - 6, HPu(100), HPu(100), 50, 10, 4 * TDen + TDen \div 2),
             EnemyAt(spawned - 3, HPu(100), HPu(100), 50, 10, OnThird(463)),
             [EnemyAt(spawned - 2, HPu(133) - 9950, HPu(133), 50, 10, OnThird(445))
                EXCEPT !.SlowTime = Ms(1200) - 8 * DT, !.SlowFactor = 50],
             EnemyAt(spawned - 1, HPu(166) - 9950, HPu(166), 50, 23, OnThird(428)),
             EnemyAt(spawned, HPu(100), HPu(100), 50, 10, OnThird(419)) >>,
        !.bullets = << [Bullet(BScale * 444 + 6, BScale * 100 + 100, BScale * 444,
                               BScale * 100, 600, HPu(100), 0, 4 * aoeLevel)
                          EXCEPT !.id = 1] >>
     ] : g0 \in NewGame }

\* End of level 1 by exhaustion: the quota of 30 is spawned, 25 were killed,
\* four escaped, the last enemy is at the end of the path.
Drained ==
  { [g0 EXCEPT
        !.nextLevelThreshold = 30, !.enemiesToSpawn = 30, !.enemiesSpawned = 30,
        !.lastSpawn = Ms(9000), !.killCount = 25, !.playerGold = GoldOfKills(25),
        !.playerHP = HPu(100) - 4 * EscapeDamage(g0),
        !.towers = TowersWithCd(<<-Ms(3000), -Ms(90000), -Ms(1000)>>),
        !.enemies = << EnemyAt(30, HPu(166), HPu(166), 50, 36, 5 * TDen - 100) >>
     ] : g0 \in NewGame }

\* Level 5 has just begun on the kill of the 20th enemy of level 4, with ten
\* damage and five area upgrades bought.  Twenty enemies of level 4 were on the
\* second segment of the old path; the new path's second segment is 10 px long
\* and passes the flame tower, and the pause has its full 20 s to run.
Clump ==
  { [g0 EXCEPT
        !.level = 5, !.nextLevelThreshold = 20, !.enemiesToSpawn = 30,
        !.path = <<Vec(0, 300), Vec(290, 230), Vec(300, 230), Vec(500, 400), Vec(ScreenW, 300)>>,
        !.spawnInt = SpawnIntervalBase - 4 * SpawnIntervalDecay,
        !.interLevelActive = TRUE, !.interLevelTimer = InterLevelPauseMS,
        !.levelMsgTimer = Ms(3000) - DT,
        !.upDamageLevel = 10, !.upAOELevel = 5,
        !.playerGold = 4 * GoldOfKills(20) - 25 * 10 * 11 - 40 * 5 * 6,
        !.towers = TowersWithCd(<<-Ms(500), 0, Ms(400)>>),
        !.enemies = [k \in 1..20 |->
                       EnemyAt(100 + k, 154 * EnemyBaseHPMin, 154 * EnemyBaseHPMin,
                               4 * EnemyArmorPerLevelCenti,
                               EnemySpeedBase + 3 * EnemySpeedPerLevel + 13 * (k % 3),
                               2 * TDen - 2500 * k)]
     ] : g0 \in NewGame }

\* Level 2, three kills in, on a path that runs between the first two towers.
\* Both have fired at the same enemy, hit once by the flame tower before and
\* still burning; the two shots land in the next Update.  A second enemy
\* follows 8 px behind.
Crossfire ==
  { [g0 EXCEPT
        !.level = 2, !.nextLevelThreshold = 20, !.enemiesToSpawn = 30,
        !.enemiesSpawned = 5, !.killCount = 3, !.lastSpawn = Ms(400),
        !.path = <<Vec(0, 300), Vec(225, 260), Vec(400, 150), Vec(600, 400), Vec(ScreenW, 300)>>,
        !.spawnInt = SpawnIntervalBase - SpawnIntervalDecay,
        !.playerGold = GoldOfKills(20) + GoldOfKills(3),
        !.towers = TowersWithCd(<<Ms(700) - 12 * DT, Ms(200) - 7 * DT, -Ms(9000)>>),
        !.enemies =
          << [EnemyAt(4, 118 * EnemyBaseHPMin - (HPu(100) - 100), 118 * EnemyBaseHPMin,
                      2 * EnemyArmorPerLevelCenti, 12, (95 * TDen) \div 100)
                EXCEPT !.BurnTime = Ms(5000) - 7 * DT, !.BurnLevel = 2, !.BurnTick = 19 * DT],
             EnemyAt(5, 118 * EnemyBaseHPMin, 118 * EnemyBaseHPMin,
                     2 * EnemyArmorPerLevelCenti, 12, (91 * TDen) \div 100) >>,
        !.bullets = << [Bullet(BScale * 211 - 9, BScale * 261 - 6, BScale * 213, BScale * 262,
                               400, HPu(2), 0, 0) EXCEPT !.id = 1],
                       [Bullet(BScale * 215 + 24, BScale * 261 - 12, BScale * 213, BScale * 262,
                               800, HPu(100), 0, 0) EXCEPT !.id = 2] >>
     ] : g0 \in NewGame }

RECURSIVE FireAfterShots(_, _, _)
\* the fire interval of a standard tower after n more shots
FireAfterShots(fire, level, n) ==
  IF n = 0 THEN fire ELSE FireAfterShots(FireDecay(fire, level), level, n - 1)

\* Level 2, one second after its pause, the fire-rate upgrade bought.  The new
\* path passes the first tower and grazes the flame tower's range at (300,319).
\* Two enemies of level 1 are left.  The faster crossed the flame tower's range
\* in less than one fire interval: it was set on fire once, 58 Updates ago,
\* and hit by that shot.  The slower is in range of the first tower, which has
\* fired at it five times since the upgrade and is about to fire again.
Volley ==
  { [g0 EXCEPT
        !.level = 2, !.nextLevelThreshold = 20, !.enemiesToSpawn = 30,
        !.enemiesSpawned = 0, !.killCount = 0, !.lastSpawn = Ms(1000),
        !.path = <<Vec(0, 300), Vec(150, 330), Vec(300, 319), Vec(300, 519), Vec(ScreenW, 300)>>,
        !.spawnInt = SpawnIntervalBase - SpawnIntervalDecay,
        !.upSpeedLevel = 1,
        !.playerGold = GoldOfKills(20) - 40,
        !.towers =
          [TowersWithCd(<<FireAfterShots(Ms(700), 1, 4) - 27 * DT, Ms(200) - 58 * DT, -Ms(9000)>>)
             EXCEPT ![1].Fire = FireAfterShots(Ms(700), 1, 5)],
        !.enemies =
          << [EnemyAt(19, HPu(190) - (HPu(100) - 50), HPu(190), EnemyArmorPerLevelCenti, 49,
                      2 * TDen + TDen \div 5)
                EXCEPT !.BurnTime = Ms(5000) - 58 * DT, !.BurnLevel = 2, !.BurnTick = 58 * DT],
             EnemyAt(23, HPu(150) - 5 * (HPu(2) - 50), HPu(150), EnemyArmorPerLevelCenti, 10,
                     (8 * TDen) \div 10) >>
     ] : g0 \in NewGame }

\* NewGame with its two draws, which no input handler reads, at their lowest
Fresh ==
  { g0 \in NewGame : g0.nextLevelThreshold = ThresholdMin
                       /\ g0.enemiesToSpawn = EnemiesPerLevelMin }

\* Level 1 after n kills and no escape, the path empty between two spawns
Quiet(n) ==
  { [g0 EXCEPT
        !.enemiesSpawned = n, !.killCount = n, !.playerGold = GoldOfKills(n),
        !.lastSpawn = Ms(500),
        !.towers = TowersWithCd(<<-Ms(4000), -Ms(30000), Ms(300)>>)
     ] : g0 \in Fresh }

\* Level 1 after four kills and two escapes, the path empty; the fire-rate
\* upgrade was bought after the third kill and the first tower has fired 15
\* times since: its fire interval is 700 * 0.9^15 = 144 ms.
Worn ==
  { [q EXCEPT
        !.enemiesSpawned = 6, !.playerHP = @ - 2 * EscapeDamage(q),
        !.upSpeedLevel = 1, !.playerGold = @ - ShopCost(q, 1),
        !.towers[1].Fire = FireAfterShots(@, 1, 15)
     ] : q \in Quiet(4) }

\* the game gm with a challenge open on 1 + 1 and "2" typed; the player has
\* clicked on tower sel before, or on nothing (sel = -1)
Asked(gm, sel) ==
  [gm EXCEPT !.challengeActive = TRUE, !.question = Q(1, "+", 1, 2),
             !.inputBuf = <<"2">>, !.selected = sel]

RECURSIVE SpawnIntAt(_)
\* the spawn interval of level l: newLevel has shortened it l - 1 times
SpawnIntAt(l) == IF l <= 1 THEN SpawnIntervalBase ELSE NextSpawnInt(SpawnIntAt(l - 1))

\* Level l has begun and its pause is over; every level before was ended by
\* its 20th kill, nothing escaped, nothing was bought, and newLevel drew the
\* waypoints of the first path again.
AtLevel(l) ==
  { [g0 EXCEPT
        !.level = l, !.spawnInt = SpawnIntAt(l),
        !.playerGold = (l - 1) * GoldOfKills(20),
        !.lastSpawn = Ms(300),
        !.towers = TowersWithCd(<<-Ms(4000), -Ms(30000), -Ms(1000)>>)
     ] : g0 \in Fresh }

\* Level 11 has just begun by exhaustion of level 10, three Updates before the
\* end of its pause; the spawn timer still holds the 9 s the last enemy of
\* level 10 took to leave the path.
PauseEnding ==
  { [q EXCEPT !.interLevelActive = TRUE, !.interLevelTimer = 3 * DT, !.lastSpawn = Ms(9000)]
    : q \in AtLevel(11) }

PauseStates == PauseEnding \cup Drained

\* where the mouse is released during a pause: on the Start-now button, and
\* one pixel left of it
PausePoints == { Vec(510, 318), Vec(459, 318) }

\* Level 1 after four kills, nothing bought.  The fifth enemy, of the highest
\* speed a draw at 0.975 gives, is 60 px down the path and about to come within
\* the first tower's range, at the far end of it.
Sprint ==
  { [q EXCEPT
        !.enemiesSpawned = 5, !.lastSpawn = Ms(1200),
        !.enemies = << EnemyAt(5, HPu(150), HPu(150), EnemyArmorPerLevelCenti, 49,
                               (60 * TDen) \div 200) >>
     ] : q \in Quiet(4) }

\* bullets in flight or about to be launched, the shop open
FlightStates == { [w EXCEPT !.shopActive = TRUE] : w \in Crossfire \cup Volley \cup Sprint }

\* where the mouse is released on the open shop: its four rows
ShopPoints == { Vec(400, 240), Vec(400, 280), Vec(400, 320), Vec(400, 360) }

\* The end of level l by exhaustion: the quota of 30 is spawned, 19 enemies
\* were killed, 10 escaped, the last is at the end of the path.
DrainedAt(l) ==
  { [q EXCEPT
        !.enemiesSpawned = q.enemiesToSpawn, !.killCount = 19,
        !.playerGold = @ + GoldOfKills(19),
        !.playerHP = @ - 10 * EscapeDamage(q),
        !.lastSpawn = Ms(9000),
        !.enemies = << EnemyAt(30, (HPScale + (l - 1) * EnemyHPScalePerLevelPct) * 166,
                               (HPScale + (l - 1) * EnemyHPScalePerLevelPct) * 166,
                               l * EnemyArmorPerLevelCenti,
                               EnemySpeedBase + 26 + (l - 1) * EnemySpeedPerLevel,
                               5 * TDen - 100) >>
     ] : q \in AtLevel(l) }

\* The last enemy of level 1: the threshold and the quota are both 30, the
\* quota is spawned, 29 enemies were killed, none escaped.  The last one, of
\* 101 HP, was hit once by the first tower on its way; it is under the slowing
\* tower, whose shot at (444,100) lands in the next Update and takes the
\* 99.5 HP it has left.
LastStand ==
  { [g0 EXCEPT
        !.enemiesSpawned = 30, !.killCount = 29, !.playerGold = GoldOfKills(29),
        !.lastSpawn = Ms(40000),
        !.towers = TowersWithCd(<<-Ms(20000), -Ms(30000), Ms(1500) - 11 * DT>>),
        !.enemies = << [EnemyAt(30, HPu(101) - HitDamage(HPu(2), EnemyArmorPerLevelCenti, 0),
                                HPu(101), EnemyArmorPerLevelCenti, 10, OnThird(445))
                          EXCEPT !.SlowTime = Ms(1200) - 11 * DT, !.SlowFactor = 50] >>,
        !.bullets = << [Bullet(BScale * 444, BScale * 100 + 12, BScale * 444, BScale * 100,
                               600, HPu(100), 0, 0) EXCEPT !.id = 1] >>
     ] : g0 \in {n \in NewGame : n.nextLevelThreshold = 30
                                    /\ n.enemiesToSpawn = EnemiesPerLevelMin} }

\* The end of level 1 for a player who lost: the quota of 30 is spawned, 16
\* enemies were killed, 13 escaped and took 104 HP, the last is at the end of
\* the path.
Overrun ==
  { [q EXCEPT !.killCount = 16, !.playerGold = GoldOfKills(16),
              !.playerHP = HPu(100) - 13 * EscapeDamage(q)]
    : q \in DrainedAt(1) }

LevelEnds == UNION {DrainedAt(l) : l \in 1..MaxLevel} \cup LastStand

\* Level 1 after four kills and two rewards taken with no tower selected: the
\* first before any click on open ground, which put a tower at (100,250), the
\* second after a click at (118,250), 18 px from that tower and so not on it.
Crowded ==
  { [q EXCEPT
        !.towers = @ \o << Tower(100, 250, 120, HPu(2), Ms(700), "", 0, 0),
                           Tower(118, 250, 120, HPu(2), Ms(700), "", 0, 0) >>,
        !.lastClick = Vec(118, 250)
     ] : q \in Quiet(4) }

\* where the mouse is released among the towers: on each of the two reward
\* towers, between them, within 18 px of one only, 18 px from one, on open ground
SelectPoints ==
  { Vec(100, 250), Vec(118, 250), Vec(112, 250), Vec(106, 250), Vec(109, 250),
    Vec(90, 250), Vec(130, 250), Vec(136, 250), Vec(82, 250), Vec(150, 220), Vec(60, 500) }

QuestionStates == UNION {AtLevel(l) : l \in 1..MaxLevel}

WaveStates ==
  LateWave(20, 50, 30, SpawnIntervalBase - 2 * DT, 0)
    \cup LateWave(20, 50, 30, SpawnIntervalBase - 2 * DT, 5)
    \cup LateWave(30, 50, 40, SpawnIntervalBase - 2 * DT, 5)
    \cup LateWave(20, 30, 30, Ms(7000), 0)
    \cup Drained \cup Clump \cup Crossfire \cup Volley \cup LastStand

UIStates ==
  Fresh \cup Quiet(4) \cup {Asked(q, -1) : q \in Quiet(4)} \cup {Asked(w, 0) : w \in Worn}

-----------------------------------------------------------------------------
(* The runs.  Each step is one call of Update, with the frame's input.      *)

\* where the mouse is released: the three towers, the four shop rows (the third
\* is under the Start-now button as well), the shop's foot, open ground, the
\* window's corner
ClickPoints ==
  { Vec(0, 0), Vec(150, 220), Vec(305, 225), Vec(400, 240), Vec(400, 280), Vec(510, 318),
    Vec(400, 360), Vec(400, 425), Vec(60, 500) }

\* the keys pressed in one frame; digits only while the buffer has room
KeySets(gm) ==
  { {"C"}, {"B"}, {"Enter"}, {"Escape"}, {"Backspace"}, {"Minus"}, {"C", "Enter"} }
    \cup { ks \in { {"1"}, {"2"}, {"1", "2"} } :
             gm.challengeActive /\ Len(gm.inputBuf) + Cardinality(ks) <= MaxBuf }

Step(in) == \E r \in Update(g, obs, in) : g' = r.g /\ obs' = r.o

\* a frame without input
Tick == obs.ticks < MaxTicks /\ Step(NoInput)

InitWave == g \in WaveStates /\ obs = NewObs(g, 0, 200, g.killCount, 0)

NextWave == Tick

Spec == InitWave /\ [][NextWave]_vars

\* a frame with no input, a click, or keys
Idle == obs.ticks < MaxTicksUI /\ Step(NoInput)
Click == obs.ticks < MaxTicksUI /\ \E p \in ClickPoints : Step(ClickAt(p.X, p.Y))
Press == obs.ticks < MaxTicksUI /\ \E ks \in KeySets(g) : Step(Keys(ks))

InitUI == g \in UIStates /\ obs = NewObs(g, 0, g.enemiesSpawned + 1, g.killCount, 0)

NextUI == Idle \/ Click \/ Press

SpecUI == InitUI /\ [][NextUI]_vars

\* a frame of a pause and of the wave after it, without input or with a click
Wait == obs.ticks < MaxTicksPause /\ Step(NoInput)
Release == obs.ticks < MaxClicksAt /\ \E p \in PausePoints : Step(ClickAt(p.X, p.Y))

InitPause == g \in PauseStates /\ obs = NewObs(g, 0, g.enemiesSpawned + 1, g.killCount, 0)

NextPause == Wait \/ Release

SpecPause == InitPause /\ [][NextPause]_vars

\* a frame while bullets fly, without input or with a click on a row of the shop
Fly == obs.ticks < MaxTicksFlight /\ Step(NoInput)
Buy == obs.ticks < MaxBuysAt /\ \E p \in ShopPoints : Step(ClickAt(p.X, p.Y))

InitFlight == g \in FlightStates /\ obs = NewObs(g, 0, 200, g.killCount, 0)

NextFlight == Fly \/ Buy

\* Update is called once per frame, for ever: no run stops before its last
\* Update.  NextFlight is enabled exactly while obs.ticks < MaxTicksFlight, so
\* this is what WF_vars(NextFlight) says.
SpecFlight == InitFlight /\ [][NextFlight]_vars /\ <>(obs.ticks = MaxTicksFlight)

\* a frame at the end of a level
Advance == obs.ticks < MaxTicksLevels /\ Step(NoInput)

InitLevels == g \in LevelEnds /\ obs = NewObs(g, 0, g.enemiesSpawned + 1, g.killCount, 0)

NextLevels == Advance

SpecLevels == InitLevels /\ [][NextLevels]_vars

\* a frame with the mouse released among the towers, or without input
Select == obs.ticks < MaxTicksSelect /\ \E p \in SelectPoints : Step(ClickAt(p.X, p.Y))
Rest == obs.ticks < MaxTicksSelect /\ Step(NoInput)

InitSelect ==
  /\ g \in Crowded
  /\ obs = [NewObs(g, 0, g.enemiesSpawned + 1, g.killCount, 0) EXCEPT !.clicks = 1]

NextSelect == Select \/ Rest

SpecSelect == InitSelect /\ [][NextSelect]_vars

\* the ends of levels and of pauses
ProgressStates == DrainedAt(1) \cup LastStand \cup Overrun \cup PauseEnding

\* what the player does in one frame of such a run: a click on the Start-now
\* button, beside it or on the first shop row, or one of the keys C and B
ProgressInputs ==
  { ClickAt(p.X, p.Y) : p \in PausePoints \cup {Vec(400, 240)} }
    \cup { Keys({k}) : k \in {"C", "B"} }

Run == obs.ticks < MaxTicksProgress /\ Step(NoInput)
Act == obs.ticks < MaxActsAt /\ \E in \in ProgressInputs : Step(in)

InitProgress == g \in ProgressStates /\ obs = NewObs(g, 0, g.enemiesSpawned + 1, g.killCount, 0)

NextProgress == Run \/ Act

\* Update is called on every frame: a run goes on to its last Update.  Run is
\* enabled exactly while obs.ticks < MaxTicksProgress, so this is weak fairness
\* of NextProgress.
SpecProgress ==
  InitProgress /\ [][NextProgress]_vars /\ <>(obs.ticks = MaxTicksProgress)

\* a frame with the key C, or with Escape
Ask == obs.ticks < MaxAsks /\ Step(Keys({"C"}))
Dismiss == obs.ticks < MaxAsks /\ Step(Keys({"Escape"}))

InitQ == g \in QuestionStates /\ obs = NewObs(g, 0, 1, 0, 0)

NextQ == Ask \/ Dismiss

SpecQ == InitQ /\ [][NextQ]_vars

-----------------------------------------------------------------------------
(* Properties *)

Ids(es) == {es[k].id : k \in 1..Len(es)}

\* C1: at the end of every Update each enemy on the path has a progress T no
\* smaller than at the end of the previous Update and no larger than the
\* number of segments of the current path, also in an Update where newLevel
\* replaces the path under the enemies.
C1_ProgressWithinPath ==
  \A k \in 1..Len(g.enemies) :
    /\ g.enemies[k].T0 <= g.enemies[k].T
    /\ g.enemies[k].T <= (Len(g.path) - 1) * TDen

\* C2: right after every newLevel, called for the kill threshold or for an
\* exhausted quota on an empty path, the level is one more than before,
\* enemiesSpawned and killCount are 0, nextLevelThreshold is in 20..30 and
\* enemiesToSpawn in 30..50.
C2_LevelTransition ==
  \A i \in 1..Len(obs.levelUps) :
    LET ev == obs.levelUps[i] IN
      /\ ev.trig \in {"kill", "spawn"}
      /\ ev.level = ev.levelBefore + 1
      /\ ev.enemiesSpawned = 0
      /\ ev.killCount = 0
      /\ ev.nextLevelThreshold \in 20..30
      /\ ev.enemiesToSpawn \in 30..50

\* a level-up on a kill has happened with enemies left on the path
C2_Witness ==
  /\ Len(obs.levelUps) > 0
  /\ obs.levelUps[1].trig = "kill"
  /\ Len(g.enemies) > 0
  /\ g.level = obs.pre.level + 1

\* the gold the purchases of this Update took
Spent == SumSeq([i \in 1..Len(obs.shop) |-> obs.shop[i].before.gold - obs.shop[i].after.gold])

\* the gold the kills of this Update paid
Paid == SumSeq([i \in 1..Len(obs.kills) |-> obs.kills[i].award])

\* C3: the N-th kill since the last level-up pays 10*N, the kill that reaches
\* the threshold included, the first kill after a level-up pays 10, and gold
\* rises by nothing but these payments.
C3_KillGold ==
  /\ \A i \in 1..Len(obs.kills) : obs.kills[i].award = 10 * obs.kills[i].n
  /\ g.playerGold = obs.pre.playerGold + Paid - Spent

\* one Update pays the kill that reaches the threshold and then, after the
\* level-up, a first kill of the new level
C3_Witness ==
  \E i \in 1..(Len(obs.kills) - 1) :
    /\ obs.kills[i].n = obs.pre.nextLevelThreshold
    /\ obs.kills[i].award = 10 * obs.pre.nextLevelThreshold
    /\ obs.kills[i + 1].n = 1
    /\ obs.kills[i + 1].award = 10
    /\ obs.kills[i + 1].level = obs.kills[i].level + 1

\* C4: once a level-up has begun the pause between levels, newLevel does not
\* run again, and the level does not change, until the pause is over.
C4_NoLevelUpInPause ==
  /\ \A i \in 1..Len(obs.levelUps) : ~obs.levelUps[i].pausedBefore
  /\ obs.pre.interLevelActive => g.level = obs.pre.level

\* C5: every enemy an impact damages loses max(1, baseDamage - max(0, armor -
\* penetration)) HP, which is at least 1; HP 150, armor 3, damage 10,
\* penetration 1 leave HP 142.
C5_HitDamage ==
  /\ \A i \in 1..Len(obs.impacts) :
       LET ev == obs.impacts[i] IN
         \A k \in 1..Len(ev.before) :
           LET lost == ev.before[k].HP - ev.after[k].HP
               eff == IF ev.before[k].Armor > ev.penetration
                        THEN ev.before[k].Armor - ev.penetration ELSE 0
               dmg == IF ev.baseDamage - eff < HPu(1) THEN HPu(1) ELSE ev.baseDamage - eff
           IN lost = 0 \/ (lost = dmg /\ lost >= HPu(1))
  /\ HPu(150) - HitDamage(HPu(10), HPu(3), HPu(1)) = HPu(142)
  /\ HitDamage(HPu(2), HPu(3), 0) = HPu(1)
  /\ HitDamage(HPu(2), HPu(1), HPu(3)) = HPu(2)

\* an impact has damaged an armoured enemy
C5_Witness ==
  \E i \in 1..Len(obs.impacts) :
    \E k \in 1..Len(obs.impacts[i].before) :
      /\ obs.impacts[i].before[k].Armor > obs.impacts[i].penetration
      /\ obs.impacts[i].after[k].HP < obs.impacts[i].before[k].HP

\* the enemies of an impact that are alive when it resolves, and the ones it damages
LiveAt(ev) == {k \in 1..Len(ev.before) : ev.before[k].HP > 0}
DamagedAt(ev) == {k \in 1..Len(ev.before) : ev.after[k].HP # ev.before[k].HP}
ImpactDist2(ev, k) == EnemyDist2(ev.path, ev.before[k], ev.x, ev.y)

\* C6: an impact without area damages the one live enemy nearest the impact
\* point if it is less than 18 px away, and nobody otherwise; an impact with an
\* area damages the live enemies within the radius; nobody else loses HP.
C6_DamagedSet ==
  \A i \in 1..Len(obs.impacts) :
    LET ev == obs.impacts[i]
        live == LiveAt(ev)
        nearest == {k \in live : \A j \in live : ImpactDist2(ev, k) <= ImpactDist2(ev, j)}
    IN IF ev.aoeRadius <= 0
         THEN IF \E k \in nearest : ImpactDist2(ev, k) < 18 * 18
                THEN \E k \in nearest : DamagedAt(ev) = {k}
                ELSE DamagedAt(ev) = {}
         ELSE DamagedAt(ev) = {k \in live : ImpactDist2(ev, k) <= ev.aoeRadius * ev.aoeRadius}

\* C7: playerHP changes by escapes only: every enemy that reaches the end of
\* the path leaves the path in that Update and takes max(1, 10 - playerArmor)
\* = 8 HP, gold and killCount staying as they are; playerArmor stays 2.
C7_Escapes ==
  /\ g.playerArmor = HPu(2)
  /\ g.playerHP = obs.pre.playerHP - HPu(8) * Len(obs.escapes)
  /\ \A i \in 1..Len(obs.escapes) :
       /\ obs.escapes[i].id \in Ids(obs.pre.enemies)
       /\ obs.escapes[i].id \notin Ids(g.enemies)
       /\ obs.escapes[i].T >= (Len(obs.pre.path) - 1) * TDen
       /\ obs.escapes[i].dmg = Max(HPu(1), HPu(10) - g.playerArmor)
  /\ \A k \in 1..Len(g.enemies) :
       g.enemies[k].id \in Ids(obs.pre.enemies) =>
         g.enemies[k].T < (Len(obs.pre.path) - 1) * TDen
  /\ (obs.kills = <<>> /\ obs.shop = <<>>) =>
       /\ g.playerGold = obs.pre.playerGold
       /\ obs.levelUps = <<>> => g.killCount = obs.pre.killCount

\* an enemy has escaped in an Update without a kill
C7_Witness ==
  /\ Len(obs.escapes) > 0
  /\ obs.kills = <<>>
  /\ g.playerHP = obs.pre.playerHP - HPu(8)
  /\ Len(g.enemies) = Len(obs.pre.enemies) - 1

\* the price of track idx at the levels ups
PriceAt(idx, ups) == <<50, 40, 60, 80>>[idx + 1] * (1 + ups[idx + 1])

\* C8: a purchase of track i goes through exactly when the gold is at least
\* baseCost_i * (1 + level_i), base costs 50, 40, 60, 80; it then takes that
\* much gold and raises track i alone by 1; otherwise gold and the four levels
\* stay.  Gold is never negative and falls only by a purchase.
C8_Purchase ==
  /\ \A i \in 1..Len(obs.shop) :
       LET ev == obs.shop[i]
           cost == PriceAt(ev.idx, ev.before.ups)
       IN /\ ev.idx \in 0..3
          /\ IF ev.before.gold >= cost
               THEN /\ ev.after.gold = ev.before.gold - cost
                    /\ ev.after.ups = [ev.before.ups EXCEPT ![ev.idx + 1] = @ + 1]
               ELSE /\ ev.after.gold = ev.before.gold
                    /\ ev.after.ups = ev.before.ups
  /\ g.playerGold >= 0
  /\ g.playerGold < obs.pre.playerGold =>
       \E i \in 1..Len(obs.shop) : obs.shop[i].after.gold < obs.shop[i].before.gold
  /\ obs.shop = <<>> => Holdings(g).ups = Holdings(obs.pre).ups

\* after a purchase of the damage track the next one is blocked, with gold
\* left but less than the doubled price
C8_Witness ==
  \E i \in 1..Len(obs.shop) :
    /\ obs.shop[i].idx = 0
    /\ obs.shop[i].before.ups[1] = 1
    /\ obs.shop[i].before.gold \in 1..99
    /\ obs.shop[i].after = obs.shop[i].before
    /\ g.upDamageLevel = 1

\* what the challenge gate holds
Gate(gm) == [active |-> gm.challengeActive, question |-> gm.question, buf |-> gm.inputBuf]

\* C9: one challenge at a time, one submission per challenge: key C while a
\* challenge is open leaves the question and the buffer as they are; a
\* submission closes the gate; Enter on a closed gate changes nothing and
\* rewards nothing.
C9_OneSubmission ==
  /\ obs.subs <= 1
  /\ (obs.input.keys = {"C"} /\ obs.beforeKeys.challengeActive) =>
       Gate(obs.afterKeys) = Gate(obs.beforeKeys)
  /\ \A i \in 1..Len(obs.chal) :
       obs.chal[i].kind # "cancel" => ~obs.chal[i].activeAfter
  /\ (obs.input.keys = {"Enter"} /\ ~obs.beforeKeys.challengeActive) =>
       /\ obs.afterKeys = obs.beforeKeys
       /\ obs.chal = <<>>

\* Enter is pressed again after a submission has closed the gate
C9_Witness ==
  /\ obs.input.keys = {"Enter"}
  /\ ~obs.beforeKeys.challengeActive
  /\ obs.subs = 1
  /\ obs.chal = <<>>

\* C10: a wrong answer, a buffer that is no number (empty, or "-" alone) and a
\* cancel close the challenge and clear the buffer, and leave the towers,
\* gold and the upgrade levels as they were.
C10_NoReward ==
  \A i \in 1..Len(obs.chal) :
    LET ev == obs.chal[i]
        isNumber == ev.buf # <<>> /\ ev.buf # <<"-">>
        right == isNumber /\ Atoi(ev.buf).val = ev.q.Ans
    IN (ev.kind = "cancel" \/ ~right) =>
         /\ ev.after = ev.before
         /\ ~ev.activeAfter
         /\ ev.bufAfter = <<>>
         /\ ~g.challengeActive /\ g.inputBuf = <<>>

\* a wrong number has been submitted
C10_Witness ==
  \E i \in 1..Len(obs.chal) :
    /\ obs.chal[i].kind = "wrong"
    /\ Len(obs.chal[i].buf) > 0
    /\ obs.chal[i].after.towers = obs.pre.towers
    /\ ~g.challengeActive

\* a right answer: the buffer is a number, the question's answer
RightAnswer(ev) == Atoi(ev.buf).ok /\ Atoi(ev.buf).val = ev.q.Ans

\* C11: a right answer with no tower selected appends one tower of range 120,
\* damage 2, fire interval 700, cooldown 0 at the last click recorded on open
\* ground, wherever that click was, and at (100,250) only if there was none;
\* the other towers stay as they are.
C11_TowerAtLastClick ==
  \A i \in 1..Len(obs.chal) :
    LET ev == obs.chal[i]
        n == Len(ev.before.towers)
        at == IF obs.clicks > 0 THEN obs.beforeKeys.lastClick ELSE Vec(100, 250)
    IN (ev.kind # "cancel" /\ RightAnswer(ev) /\ obs.beforeKeys.selected < 0) =>
         /\ Len(ev.after.towers) = n + 1
         /\ SubSeq(ev.after.towers, 1, n) = ev.before.towers
         /\ ev.after.towers[n + 1].X = at.X
         /\ ev.after.towers[n + 1].Y = at.Y
         /\ ev.after.towers[n + 1].Range = 120
         /\ ev.after.towers[n + 1].Damage = HPu(2)
         /\ ev.after.towers[n + 1].Fire = Ms(700)
         /\ ev.after.towers[n + 1].Cd = 0

\* C12: a right answer with a tower selected changes that tower alone and adds
\* none: damage + 1, or range + 20, or the fire interval less 100 ms but not
\* under 150 ms, the interval then being no larger than before.
C12_SelectedReward ==
  \A i \in 1..Len(obs.chal) :
    LET ev == obs.chal[i]
        sel == obs.beforeKeys.selected + 1
        b == ev.before.towers[sel]
        a == ev.after.towers[sel]
    IN (ev.kind # "cancel" /\ RightAnswer(ev) /\ sel >= 1) =>
         /\ Len(ev.after.towers) = Len(ev.before.towers)
         /\ \A j \in 1..Len(ev.before.towers) :
              j # sel => ev.after.towers[j] = ev.before.towers[j]
         /\ \/ a = [b EXCEPT !.Damage = @ + HPu(1)]
            \/ a = [b EXCEPT !.Range = @ + 20]
            \/ /\ a = [b EXCEPT !.Fire = a.Fire]
               /\ a.Fire = Max(Ms(150), b.Fire - Ms(100))
               /\ a.Fire <= b.Fire
               /\ a.Fire >= Ms(150)

\* C13: every question genQuestion returns, at every level, has as its answer
\* the exact integer result of its operation on its operands; a multiplication
\* is asked only from level 3, a division only from level 10; a division has a
\* divisor b in 2..19 (never zero), a quotient in 2..13, a dividend b times the
\* quotient, hence no remainder, and the quotient as its answer.
C13_Question ==
  \A i \in 1..Len(obs.opens) :
    LET q == obs.opens[i].q
        level == obs.pre.level
    IN obs.opens[i].opened =>
         /\ q.op \in {"+", "-", "*", "/"}
         /\ q.op = "+" => q.Ans = q.a + q.b
         /\ q.op = "-" => q.Ans = q.a - q.b
         /\ q.op = "*" => q.Ans = q.a * q.b /\ level >= 3
         /\ q.op = "/" => /\ level >= 10
                          /\ q.b \in 2..19
                          /\ q.Ans \in 2..13
                          /\ q.a = q.b * q.Ans
                          /\ q.a % q.b = 0
                          /\ q.Ans = q.a \div q.b

\* a division is asked at level 11
C13_Witness ==
  /\ obs.pre.level = 11
  /\ \E i \in 1..Len(obs.opens) : obs.opens[i].opened /\ obs.opens[i].q.op = "/"
                                     /\ obs.opens[i].q.a > obs.opens[i].q.b

\* the click of this Update is on the Start-now button of an active pause
Skipped ==
  /\ obs.input.click /\ obs.pre.interLevelActive
  /\ obs.input.x >= 460 /\ obs.input.x <= 560 /\ obs.input.y >= 304 /\ obs.input.y <= 332

\* the countdown of the pause reaches zero in this Update
Expired ==
  /\ obs.beforeKeys.interLevelActive
  /\ obs.beforeKeys.interLevelTimer - Ms(1000) \div 60 <= 0

\* no pause, zero countdown, zero spawn counter, zero spawn timer
Resumed(gm) ==
  ~gm.interLevelActive /\ gm.interLevelTimer = 0 /\ gm.enemiesSpawned = 0 /\ gm.lastSpawn = 0

\* C14: every level completion starts a pause of 20000 ms; no enemy is spawned
\* in an Update whose pause is active; an active pause ends in an Update exactly
\* if its countdown reaches zero there or the Start-now button is clicked, and
\* otherwise counts down; when it ends the pause flag is false and the countdown,
\* the spawn counter and the spawn timer are 0; afterwards spawning resumes: an
\* enemy is spawned as soon as the spawn timer has passed the interval.
C14_Pause ==
  /\ \A i \in 1..Len(obs.levelUps) :
        obs.levelUps[i].interLevelActive /\ obs.levelUps[i].interLevelTimer = Ms(20000)
  /\ obs.beforeKeys.interLevelActive => obs.spawns = <<>>
  /\ obs.ticks > 0 /\ obs.pre.interLevelActive =>
        /\ ~obs.afterWave.interLevelActive <=> (Skipped \/ Expired)
        /\ Skipped => Resumed(obs.beforeKeys)
        /\ Expired => Resumed(obs.afterWave)
        /\ ~(Skipped \/ Expired) =>
              obs.afterWave.interLevelTimer = obs.pre.interLevelTimer - Ms(1000) \div 60
  /\ ~g.interLevelActive /\ g.enemiesSpawned < g.enemiesToSpawn => g.lastSpawn <= g.spawnInt

\* a pause has run out without a click, and the first enemy of the level is spawned
C14_Witness ==
  /\ obs.ended = 1 /\ obs.clicks = 0
  /\ obs.spawns # <<>> /\ g.enemiesSpawned = 1 /\ g.level = 11

\* C15: an Update spawns at most one enemy, and only if no pause is active,
\* fewer enemies than the quota are spawned and the spawn timer, advanced by
\* this Update, exceeds the spawn interval; the spawn appends one enemy, adds 1
\* to enemiesSpawned and resets the spawn timer to 0; without a spawn, a pause
\* end or a level-up enemiesSpawned stays; and always
\* 0 <= enemiesSpawned <= enemiesToSpawn.
C15_Spawning ==
  LET b == obs.afterKeys
      a == obs.afterWave
  IN /\ Len(obs.spawns) <= 1
     /\ obs.spawns # <<>> =>
           /\ ~b.interLevelActive
           /\ b.enemiesSpawned < b.enemiesToSpawn
           /\ b.lastSpawn + Ms(1000) \div 60 > b.spawnInt
           /\ a.enemiesSpawned = b.enemiesSpawned + 1
           /\ a.lastSpawn = 0
           /\ a.enemies = Append(b.enemies, obs.spawns[1])
     /\ obs.spawns = <<>> => a.enemies = b.enemies
     /\ obs.spawns = <<>> /\ ~b.interLevelActive /\ obs.levelUps = <<>> =>
           a.enemiesSpawned = b.enemiesSpawned
     /\ 0 <= g.enemiesSpawned /\ g.enemiesSpawned <= g.enemiesToSpawn

\* an enemy is spawned behind others still on the path, below the quota
C15_Witness ==
  /\ obs.spawns # <<>> /\ Len(obs.afterKeys.enemies) > 0
  /\ g.enemiesSpawned = obs.pre.enemiesSpawned + 1 /\ g.enemiesSpawned < g.enemiesToSpawn

\* the enemies of es that carry the id of e
Same(es, e) == {j \in 1..Len(es) : es[j].id = e.id}

\* C16: an enemy whose slow is active at the start of an Update (slow time
\* left, slow factor 0.5) and that stays on the path advances in that Update
\* by its speed times the slow factor, strictly less than the same enemy on
\* the same segment would without the slow.
C16_SlowedAdvance ==
  \A k \in 1..Len(g.enemies) : \A j \in Same(obs.pre.enemies, g.enemies[k]) :
    LET e == g.enemies[k]
        was == obs.pre.enemies[j]
        path == obs.afterWave.path
    IN (obs.ticks > 0 /\ was.SlowTime > 0 /\ was.SlowFactor = 50) =>
         /\ e.T - was.T = MoveFrac(path, [was EXCEPT !.Speed = (@ * was.SlowFactor) \div 100])
         /\ e.T - was.T < MoveFrac(path, was)

\* the slowing tower has fired at enemy e in this Update
Pulsed(e) ==
  \E t \in 1..Len(obs.turns) :
    obs.turns[t].fired /\ obs.turns[t].before.Type = "slow" /\ obs.turns[t].target = e.id

\* C17: an enemy's slow timer is decremented by dt in each Update and stops
\* at 0; at the end of an Update every live enemy with no slow time left that
\* was spawned in this Update, or whose slow timer ran in it, has slow factor 1.
C17_SlowExpiry ==
  \A k \in 1..Len(g.enemies) :
    LET e == g.enemies[k]
        fresh == \E i \in 1..Len(obs.spawns) : obs.spawns[i].id = e.id
        ran == {j \in Same(obs.pre.enemies, e) : obs.pre.enemies[j].SlowTime > 0}
    IN (obs.ticks > 0 /\ e.HP > 0) =>
         /\ \A j \in ran : ~Pulsed(e) =>
               e.SlowTime = Max(0, obs.pre.enemies[j].SlowTime - Ms(1000) \div 60)
         /\ (fresh \/ ran # {}) /\ e.SlowTime = 0 => e.SlowFactor = 100

\* the enemies in range of the tower at its turn ev, and the nearest of them,
\* the earliest of equals
InRange(ev) ==
  {k \in 1..Len(ev.enemies) :
     ev.enemies[k].HP > 0
       /\ TowerDist2(ev.path, ev.before, ev.enemies[k]) <= ev.before.Range * ev.before.Range}

Nearest(ev) ==
  CHOOSE k \in InRange(ev) :
    \A j \in InRange(ev) :
      \/ TowerDist2(ev.path, ev.before, ev.enemies[k]) < TowerDist2(ev.path, ev.before, ev.enemies[j])
      \/ /\ TowerDist2(ev.path, ev.before, ev.enemies[k]) = TowerDist2(ev.path, ev.before, ev.enemies[j])
         /\ k <= j

\* C18: in each Update every tower has one turn, in which its cooldown is
\* decremented by dt; it fires in that turn if and only if the cooldown is then
\* <= 0 and a live enemy is within its range; a firing tower emits exactly one
\* projectile, from its own position to the position at that time of the
\* nearest live enemy in range, the earliest in enemy order among equals; a
\* tower that does not fire emits nothing and keeps its fire interval.
C18_Targeting ==
  /\ obs.ticks > 0 => Len(obs.turns) = Len(obs.afterWave.towers)
  /\ \A t \in 1..Len(obs.turns) :
        LET ev == obs.turns[t]
            cd == ev.before.Cd - Ms(1000) \div 60
        IN /\ ev.ti = t
           /\ ev.fired <=> (cd <= 0 /\ InRange(ev) # {})
           /\ ev.fired =>
                 LET p == posAlongPath(ev.path, ev.enemies[Nearest(ev)].T)
                     b == ev.bulletsAfter[Len(ev.bulletsAfter)]
                 IN /\ Len(ev.bulletsAfter) = Len(ev.bullets) + 1
                    /\ SubSeq(ev.bulletsAfter, 1, Len(ev.bullets)) = ev.bullets
                    /\ b.X = BScale * ev.before.X /\ b.Y = BScale * ev.before.Y
                    /\ b.Tx = BScale * p.X /\ b.Ty = BScale * p.Y
                    /\ ev.target = ev.enemies[Nearest(ev)].id
           /\ ~ev.fired =>
                 /\ ev.bulletsAfter = ev.bullets
                 /\ ev.after = [ev.before EXCEPT !.Cd = cd]

\* a tower fires at the nearest of several enemies in range, which is not the
\* first of them in enemy order
C18_Witness ==
  \E t \in 1..Len(obs.turns) :
    /\ obs.turns[t].fired
    /\ Cardinality(InRange(obs.turns[t])) > 1
    /\ \E j \in InRange(obs.turns[t]) : j < Nearest(obs.turns[t])

\* C19: after the turn in which a tower fires, its cooldown equals its fire
\* interval as it stands after the shot; for a standard tower that interval is
\* the interval before the shot times 0.90 per level of the fire-rate upgrade;
\* for a flame or a slowing tower it is the interval before the shot.
C19_CooldownAfterShot ==
  \A t \in 1..Len(obs.turns) :
    LET ev == obs.turns[t]
    IN ev.fired =>
         /\ ev.after.Cd = ev.after.Fire
         /\ ev.before.Type \in {"flame", "slow"} => ev.after.Fire = ev.before.Fire
         /\ ev.before.Type \notin {"flame", "slow"} =>
               ev.after.Fire = FireDecay(ev.before.Fire, ev.upSpeedLevel)

Loaded ==
  IF obs.turns = <<>> THEN obs.afterKeys.bullets ELSE obs.turns[Len(obs.turns)].bulletsAfter

\* the bullets resolved in this Update, in the order of their resolution
Landings == SelectSeq(obs.flights, LAMBDA f : f.landed)

\* the Updates a bullet needs at most: 120 px, the widest range of a tower that
\* shoots at 400 px/s, or less at a higher speed
FlightTicks == (120 * 60) \div 400 + 1

\* bullet number i is in flight
InFlight(i) == \E k \in 1..Len(g.bullets) : g.bullets[k].id = i

\* a bullet launched at least FlightTicks Updates before the end of the run is in flight
EarlyInFlight ==
  \E k \in 1..Len(g.bullets) : g.bullets[k].born <= MaxTicksFlight - FlightTicks

\* what a bullet carries to its impact
Payload(b) == <<b.id, b.born, b.Tx, b.Ty, b.Speed, b.Damage, b.Penetration, b.AoeRadius>>

\* the square of the distance a bullet has left, in thirds of a pixel
Remaining2(b) == Hypot2(b.Tx - b.X, b.Ty - b.Y)

\* what one Update does with the bullets
FlightFrame ==
  obs.ticks > 0 =>
    /\ obs.afterKeys.bullets = obs.pre.bullets
    /\ Len(obs.flights) = Len(Loaded)
    /\ \A j \in 1..Len(obs.flights) :
          LET f == obs.flights[j]
              move == (f.b.Speed * BScale) \div 60
          IN /\ f.b = Loaded[Len(Loaded) + 1 - j]
             /\ f.landed <=> Remaining2(f.b) <= move * move
             /\ f.landed => ~InFlight(f.b.id)
             /\ ~f.landed =>
                   /\ Cardinality({k \in 1..Len(g.bullets) : g.bullets[k].id = f.b.id}) = 1
                   /\ \E k \in 1..Len(g.bullets) : g.bullets[k] = f.after
                   /\ Payload(f.after) = Payload(f.b)
                   /\ Remaining2(f.after) < Remaining2(f.b)
    /\ Len(obs.impacts) = Len(Landings)
    /\ \A k \in 1..Len(Landings) :
          /\ obs.impacts[k].x = Landings[k].b.Tx \div BScale
          /\ obs.impacts[k].y = Landings[k].b.Ty \div BScale
          /\ obs.impacts[k].baseDamage = Landings[k].b.Damage
          /\ obs.impacts[k].penetration = Landings[k].b.Penetration
          /\ obs.impacts[k].aoeRadius = Landings[k].b.AoeRadius
    /\ Len(g.bullets) = Len(obs.flights) - Len(Landings)

\* a bullet of the next state is one of this state with the same payload, or
\* has a launch number not used before
FlightStep ==
  \A k \in 1..Len(g'.bullets) :
    \/ g'.bullets[k].id > obs.shots
    \/ \E j \in 1..Len(g.bullets) : Payload(g.bullets[j]) = Payload(g'.bullets[k])

\* C21: from launch to removal a bullet keeps its impact point, damage,
\* penetration and AoE radius, whatever its target does and whatever is bought
\* meanwhile; an Update resolves a bullet if and only if the distance it has
\* left is within one Update of movement, resolves it once, at its impact point
\* and with its own damage, penetration and radius, and removes it in the same
\* Update; a bullet that is not resolved comes nearer; a removed bullet never
\* comes back; and with Update called for ever every launched bullet is
\* eventually removed.
C21_ProjectileLifeCycle ==
  /\ []FlightFrame
  /\ [][FlightStep]_vars
  /\ EarlyInFlight ~> ~EarlyInFlight

\* a bullet launched before the area upgrade was bought is resolved, more
\* than ten Updates later, with the radius it was launched with
C21_Witness ==
  /\ obs.ticks > 10 /\ g.upAOELevel > 0
  /\ \E k \in 1..Len(obs.impacts) : obs.impacts[k].aoeRadius = 0

\* C22: in every state the spawn interval is max(600, 2000 - 150 * (level - 1))
\* ms; an Update never lengthens it and never takes it below 600 ms, and a
\* level-up shortens it by 150 ms or to the floor of 600 ms.
C22_SpawnInterval ==
  /\ g.spawnInt = Max(Ms(600), Ms(2000) - Ms(150) * (g.level - 1))
  /\ g.spawnInt >= Ms(600)
  /\ g.spawnInt <= obs.pre.spawnInt
  /\ g.level = obs.pre.level => g.spawnInt = obs.pre.spawnInt
  /\ g.level = obs.pre.level + 1 =>
        g.spawnInt = Max(Ms(600), obs.pre.spawnInt - Ms(150))

\* level 11 begins: the interval goes from 650 ms to the floor
C22_Witness ==
  /\ obs.levelUps # <<>> /\ g.level = 11
  /\ obs.pre.spawnInt = Ms(650) /\ g.spawnInt = Ms(600)

\* the towers within 18 px of the click of this Update, as indices from 0
Within18 ==
  {i \in 0..(Len(obs.pre.towers) - 1) :
     Hypot2(obs.pre.towers[i + 1].X - obs.input.x, obs.pre.towers[i + 1].Y - obs.input.y)
       < 18 * 18}

\* C23: a click with a tower within 18 px selects a tower none is nearer to
\* the click than, and leaves the recorded placement point alone; a click with
\* no tower within 18 px clears the selection and records the click as the
\* placement point; the selection is always -1 or the index of a tower.
C23_Selection ==
  LET sel == obs.beforeKeys.selected
      d2(i) == Hypot2(obs.pre.towers[i + 1].X - obs.input.x,
                      obs.pre.towers[i + 1].Y - obs.input.y)
  IN /\ g.selected \in -1..(Len(g.towers) - 1)
     /\ (obs.input.click /\ Within18 # {}) =>
           /\ sel \in Within18
           /\ \A j \in Within18 : d2(sel) <= d2(j)
           /\ obs.beforeKeys.lastClick = obs.pre.lastClick
     /\ (obs.input.click /\ Within18 = {}) =>
           /\ sel = -1
           /\ obs.beforeKeys.lastClick = Vec(obs.input.x, obs.input.y)
     /\ ~obs.input.click => sel = obs.pre.selected

\* the enemies on the path that were spawned in the level
OwnAlive == Cardinality({i \in 1..Len(g.enemies) : g.enemies[i].id >= obs.lvlFirst})

\* C24: a level ended by newLevel from the spawn branch (quota spawned, no
\* enemy on the path) has had an escape of an enemy spawned in it; a level
\* with no such escape ends on the kill threshold, which is at most 30 and so
\* never above the quota, which is at least 30: every enemy spawned in the
\* level is on the path, killed in the level or escaped.
C24_SecondaryPath ==
  /\ \A i \in 1..Len(obs.levelUps) :
        /\ obs.levelUps[i].trig = "spawn" => obs.levelUps[i].ownEsc >= 1
        /\ obs.levelUps[i].ownEsc = 0 => obs.levelUps[i].trig = "kill"
  /\ g.nextLevelThreshold <= 30 /\ 30 <= g.enemiesToSpawn
  /\ g.enemiesSpawned <= g.killCount + obs.ownEsc + OwnAlive

\* a level has ended from the spawn branch, after escapes of its own enemies
C24_Witness ==
  /\ Len(obs.levelUps) = 1
  /\ obs.levelUps[1].trig = "spawn"
  /\ obs.levelUps[1].ownEsc >= 1
  /\ obs.pre.enemiesSpawned = obs.pre.enemiesToSpawn /\ obs.pre.enemies = <<>>

\* a level with no escape has ended on the kill of the last enemy of its quota
C24_WitnessKill ==
  /\ Len(obs.levelUps) = 1
  /\ obs.levelUps[1].trig = "kill" /\ obs.levelUps[1].ownEsc = 0
  /\ obs.pre.enemiesSpawned = obs.pre.enemiesToSpawn /\ Len(obs.pre.enemies) = 1

\* C25: between Updates the kill counter is at least 0 and below the
\* threshold of the level: the kill that reaches the threshold resets it.
C25_KillCountBelowThreshold ==
  /\ 0 <= g.killCount
  /\ g.killCount < g.nextLevelThreshold

\* an Update with several kills, one of which reached the threshold
C25_Witness ==
  /\ obs.pre.killCount = obs.pre.nextLevelThreshold - 1
  /\ Len(obs.kills) >= 2
  /\ obs.levelUps # <<>> /\ obs.levelUps[1].trig = "kill"

\* the ids an event log names
LogIds(log) == {log[k].id : k \in 1..Len(log)}

\* C26: between Updates every enemy on the path has 0 < HP <= MaxHP.  The
\* enemies that leave the path in an Update are the ones killed and the ones
\* escaped, and none is both; a killed enemy had HP <= 0 and is counted once,
\* as one kill; the enemies an Update moves and the ones its towers fire at
\* had HP > 0 when it began.
C26_EnemyHealth ==
  LET met == Ids(obs.pre.enemies) \cup Ids(obs.spawns) IN
  /\ \A k \in 1..Len(g.enemies) :
        0 < g.enemies[k].HP /\ g.enemies[k].HP <= g.enemies[k].MaxHP
  /\ \A k \in 1..Len(obs.pre.enemies) : obs.pre.enemies[k].HP > 0
  /\ \A k \in 1..Len(obs.spawns) : obs.spawns[k].HP > 0
  /\ LogIds(obs.kills) \cap LogIds(obs.escapes) = {}
  /\ met \ Ids(g.enemies) = LogIds(obs.kills) \cup LogIds(obs.escapes)
  /\ Cardinality(LogIds(obs.kills)) = Len(obs.kills)
  /\ \A k \in 1..Len(obs.kills) : obs.kills[k].hp <= 0
  /\ g.killCount = obs.sinceUp
  /\ obs.levelUps = <<>> => g.killCount = obs.pre.killCount + Len(obs.kills)
  /\ \A k \in 1..Len(obs.turns) :
        obs.turns[k].fired => obs.turns[k].target \in met

\* an Update has brought an enemy to exactly 0 HP and removed it
C26_Witness ==
  /\ \E k \in 1..Len(obs.kills) : obs.kills[k].hp = 0 /\ obs.kills[k].id \notin Ids(g.enemies)
  /\ g.killCount = 0 /\ obs.pre.killCount = 29

\* the enemies an impact would damage if its radius were 0
DamagedAtZero(ev) == HitSet([path |-> ev.path, enemies |-> ev.before], ev.x, ev.y, 0)

\* C27: every enemy that an impact of radius 0 at the same point would damage
\* is damaged by an impact of a positive radius 4 * upAOELevel: buying the
\* area upgrade never turns a hit into a miss.
C27_AoeMonotone ==
  \A i \in 1..Len(obs.impacts) :
    obs.impacts[i].aoeRadius > 0 =>
      DamagedAtZero(obs.impacts[i]) \subseteq DamagedAt(obs.impacts[i])

\* C28: every segment of the path has a length above 0, on NewGame's path and
\* on every path newLevel draws: no enemy's advance divides by 0 and none
\* jumps to the end of the path.
C28_PositiveSegments ==
  /\ \A i \in 1..(Len(g.path) - 1) : Hypot2(g.path[i + 1].X - g.path[i].X,
                                            g.path[i + 1].Y - g.path[i].Y) > 0
  /\ \A k \in 1..Len(g.enemies) : g.enemies[k].T < TInf
  /\ \A k \in 1..Len(obs.escapes) : obs.escapes[k].T < TInf

\* What is left to do before the level ends, in the order in which it is
\* done: the pause to run, the quota to spawn, the time to the next spawn, the
\* way of the enemies on the path to its end.
Rank(gm) ==
  << IF gm.interLevelActive THEN Max(gm.interLevelTimer, 0) + DT ELSE 0,
     Max(0, gm.enemiesToSpawn - gm.enemiesSpawned),
     Max(0, gm.spawnInt - gm.lastSpawn + DT),
     SumSeq([k \in 1..Len(gm.enemies) |->
               1 + Max(0, Segs(gm.path) * TDen - gm.enemies[k].T)]) >>

\* a is before b in the lexicographic order
LexLess(a, b) ==
  \E i \in 1..Len(a) : a[i] < b[i] /\ \A j \in 1..(i - 1) : a[j] = b[j]

\* an Update raises the level or leaves less to do
Progress == g'.level > g.level \/ LexLess(Rank(g'), Rank(g))

\* nothing is left to do only when the level ends in the next Update
RankFloor == \A i \in 1..4 : Rank(g)[i] >= 0

\* every Update raises the level or leaves less to do, and what is left is
\* never below nothing
Descent == [][Progress]_vars /\ []RankFloor

=============================================================================
